---- MODULE Spec2Model ----
(***************************************************************************)
(* A model of scrape_to_md: the Chrome-attached scraping service           *)
(* (chrome_service.py), the client-side dispatcher (cli.py,                *)
(* daemon_client.py) and the output-file naming routine (web.py,           *)
(* daemon_client.py).                                                      *)
(*                                                                         *)
(* The server runs one cooperative event loop.  A step of the model is the *)
(* code one coroutine runs between two suspension points (an await that    *)
(* really waits); everything in between is executed atomically, as asyncio *)
(* executes it.  The synchronous code is written as operators on a state   *)
(* record s (the value of all variables), so that a call chain such as     *)
(* ensure_connected -> stop -> cleanup_chrome -> start reads as in the     *)
(* source; an action commits the record the chain ends in.                 *)
(***************************************************************************)
EXTENDS Integers, Sequences, FiniteSets, TLC

\* ------------------------------------------------------------- bounds

\* Requests the server accepts in one run.
MaxRequests == 2
\* Events of the environment (a browser crash, a window closed or opened, a
\* call that fails although what it works on is up).
MaxEnv == 1
\* Rounds of the poll loop of _ensure_chrome_running.  The source polls 30
\* times (chrome_service.py:133, range(30)), one second apart; a round that
\* finds the port closed changes nothing but the loop counter, so the loop is
\* modelled with its structure and a shorter range.
StartPolls == 2

\* ------------------------------------------------- program constants

\* chrome_service.py:90  max_retries = 3
max_retries == 3

\* ---------------------------------------------------------- the state

MainTask == "main"
ReqTasks == {"r1", "r2"}
Tasks == {MainTask} \cup ReqTasks

\* Object identities; 0 is Python's None.  An object that is gone for good (a
\* closed connection, a stopped driver, an exited process) is only ever
\* tested for being gone, so every reference to one is written Gone.
Ids == 1..(MaxRequests + 2)
Gone == 0 - 1

VARIABLES
    \* ChromeService fields
    playwright,      \* self.playwright: 0 or a driver
    browser,         \* self.browser: 0 or a connection
    pidFile,         \* content of chrome_browser.pid: 0 (no file) or a pid
    \* the world outside the manager
    drivers,         \* the protocol drivers that are running
    conns,           \* the connections that are open (connected)
    connDrv,         \* the driver each connection was made through
    procs,           \* the browser processes launched and alive: pid -> status
    extUp,           \* a browser this process did not launch listens on the port
    windows,         \* the browser has at least one browsing context
    \* the server process
    phase,           \* boot, starting, serving, cleanup, failed, exited
    scraper,         \* the module-level scraper: 0 or 1 (the ChromeService)
    \* the coroutines
    pc,              \* where each task is suspended
    loc,             \* each task's local variables
    hist,            \* what each task's current call has done (history)
    resp,            \* the response of each request task's current request
    exeFound,        \* a Chrome executable is installed (config.py:56-62)
    \* counters (history)
    cnt,
    \* the dispatcher processes (cli.py) and the daemon socket
    sock,            \* the socket file: missing, stale (nobody accepts), live
    booting,         \* daemon processes spawned and not yet serving
    dpc,             \* where each dispatcher process is
    dpolls,          \* the rounds of start_daemon_background's wait loop
    dh,              \* what each scrape_url call has seen and done (history)
    \* the output directory
    files,           \* file name -> content
    scrapes,         \* the scrapes made into the directory (history)
    before,          \* the directory before the last scrape (history)
    \* the functions called on their own
    call,            \* the function called and its input
    ret              \* what it has returned or raised so far

srvVars == <<playwright, browser, pidFile, drivers, conns,
             connDrv, procs, extUp, windows, phase, scraper, pc, loc, hist,
             resp, exeFound, cnt>>
cliVars == <<sock, booting, dpc, dpolls, dh>>
outVars == <<files, scrapes, before>>
funVars == <<call, ret>>
vars == <<srvVars, cliVars, outVars, funVars>>

\* The value of all variables as one record, and its commitment.
Cur ==
    [playwright |-> playwright, browser |-> browser,
     pidFile |-> pidFile,
     drivers |-> drivers, conns |-> conns, connDrv |-> connDrv,
     procs |-> procs, extUp |-> extUp, windows |-> windows,
     phase |-> phase, scraper |-> scraper, pc |-> pc, loc |-> loc,
     hist |-> hist, resp |-> resp, exeFound |-> exeFound,
     cnt |-> cnt]

LiveDriver(s, d) == IF d = 0 \/ d \in s.drivers THEN d ELSE Gone
LiveConn(s, c) == IF c = 0 \/ c \in s.conns THEN c ELSE Gone
LivePid(s, p) == IF p = 0 \/ (p \in Ids /\ s.procs[p] # "none") THEN p ELSE Gone

DriverPcs == {"pw_stop", "connect"}
ConnPcs == {"close", "new_page", "page", "page_close"}

Commit(s) ==
    /\ playwright' = LiveDriver(s, s.playwright)
    /\ browser' = LiveConn(s, s.browser)
    /\ pidFile' = LivePid(s, s.pidFile)
    /\ drivers' = s.drivers
    /\ conns' = s.conns
    /\ connDrv' = [c \in Ids |-> IF c \in s.conns THEN s.connDrv[c] ELSE 0]
    /\ procs' = s.procs
    /\ extUp' = s.extUp
    /\ windows' = s.windows
    /\ phase' = s.phase
    /\ scraper' = s.scraper
    /\ pc' = s.pc
    /\ loc' = [t \in Tasks |->
                 [s.loc[t] EXCEPT !.obj =
                     IF s.pc[t] \in DriverPcs THEN LiveDriver(s, @)
                     ELSE IF s.pc[t] \in ConnPcs THEN LiveConn(s, @)
                     ELSE 0]]
    /\ hist' = s.hist
    /\ resp' = s.resp
    /\ exeFound' = s.exeFound
    /\ cnt' = s.cnt
    /\ UNCHANGED <<cliVars, outVars, funVars>>

\* A task's locals: the retry index of start(), the polls made by
\* _ensure_chrome_running, the call site _ensure_chrome_running returns to,
\* the object an awaited call works on, and the result scrape holds while
\* page.close() runs.
NoResult == [title |-> "-", markdown |-> "-", error |-> "-"]
Loc0 == [attempt |-> 0, polls |-> 0, after |-> "-", obj |-> 0,
         result |-> NoResult]

\* What the task's current scrape call has done so far.
Hist0 == [probe |-> "none", stopped |-> FALSE, started |-> FALSE,
          ensured |-> "none", ready |-> "none", exc |-> "none"]

NoResp == [status |-> 0, result |-> NoResult]

\* The smallest identity not in use.
Fresh(used) == CHOOSE i \in Ids : i \notin used /\ \A j \in Ids : j \notin used => i <= j

FreshDriver(s) == Fresh(s.drivers)
FreshConn(s) == Fresh(s.conns)
FreshPid(s) == Fresh({p \in Ids : s.procs[p] # "none"})

\* An event of the environment: a crash, a window closed or opened, or a call
\* into the browser or the driver that fails although what it works on is up.
CanFault(s) == s.cnt.env < MaxEnv
EnvStep(s) == [s EXCEPT !.cnt.env = @ + 1]

\* ------------------------------------------- what the manager observes

\* is_chrome_running (23-36): a TCP connection to the debugging port succeeds.
\* A browser that was sent SIGTERM listens until it has exited.
is_chrome_running(s) ==
    s.extUp \/ \E p \in Ids : s.procs[p] \in {"up", "term"}

\* Browser.is_connected()
is_connected(s, c) == c \in s.conns

\* Browser.contexts is not empty
has_contexts(s, c) == c \in s.conns /\ s.windows

\* ------------------------------------------------ the request handler

\* handle_scrape (253-257) has no handler of its own: an exception of
\* scraper.scrape leaves it, and the HTTP server answers with status 500.
handle_scrape_raises(s, t, e) ==
    [s EXCEPT !.pc[t] = "respond", !.loc[t] = Loc0, !.hist[t].exc = e,
              !.resp[t] = [status |-> 500, result |-> NoResult]]

\* handle_scrape (256-257): web.json_response(result), status 200.
handle_scrape_returns(s, t, r) ==
    [s EXCEPT !.pc[t] = "respond", !.loc[t] = Loc0,
              !.resp[t] = [status |-> 200, result |-> r]]

\* ------------------------------------------------------------- scrape

\* scrape (209-211): context = self.browser.contexts[0];
\* page = await context.new_page().  Both are outside the try block.
scrape_open_page(s, t) ==
    IF has_contexts(s, s.browser)
    THEN [s EXCEPT !.pc[t] = "new_page", !.loc[t].obj = s.browser]
    ELSE handle_scrape_raises(s, t, "IndexError")

\* ensure_connected returned: scrape goes on at line 209.  hist.ready records
\* the session ensure_connected declared ready.
ensure_connected_returns(s, t) ==
    scrape_open_page(
        [s EXCEPT !.hist[t].ensured = "ok",
                  !.hist[t].ready =
                      IF is_connected(s, s.browser) /\ has_contexts(s, s.browser)
                      THEN "yes" ELSE "no"], t)

\* An exception of ensure_connected (207) leaves scrape.
ensure_connected_raises(s, t, e) ==
    handle_scrape_raises([s EXCEPT !.hist[t].ensured = e], t, e)

\* An ensure_connected without the check of lines 191-195.
NoContextsAfterReconnectMut(s, t) == ensure_connected_returns(s, t)

\* ensure_connected (191-195), after stop() and start().
ensure_connected_after_start(s, t) ==
    IF ~has_contexts(s, s.browser)
    THEN ensure_connected_raises(s, t, "NoWindows")
    ELSE ensure_connected_returns(s, t)

\* ------------------------------------------------- the server's hooks

\* on_startup (265-270) after start() returned: the server binds the socket.
on_startup_done(s) ==
    [s EXCEPT !.phase = "serving", !.pc[MainTask] = "serving",
              !.loc[MainTask] = Loc0, !.cnt.started = 1]

\* A startup hook that swallows the exception of start() and serves.
OnStartupSwallowsMut(s, e) ==
    [s EXCEPT !.phase = "serving", !.pc[MainTask] = "serving",
              !.loc[MainTask] = Loc0, !.hist[MainTask].exc = e]

\* on_startup (269): start() raised; the application does not come up.
on_startup_failed(s, e) ==
    [s EXCEPT !.phase = "failed", !.pc[MainTask] = "failed",
              !.loc[MainTask] = Loc0, !.hist[MainTask].exc = e]

\* on_cleanup (273-277) after stop() returned.
on_cleanup_done(s) ==
    [s EXCEPT !.phase = "exited", !.pc[MainTask] = "exited",
              !.loc[MainTask] = Loc0]

\* -------------------------------------------------------------- start

start_raises(s, t, e) ==
    IF t = MainTask THEN on_startup_failed(s, e)
    ELSE ensure_connected_raises(s, t, e)

start_returns(s, t) ==
    IF t = MainTask THEN on_startup_done(s)
    ELSE ensure_connected_after_start([s EXCEPT !.hist[t].started = TRUE], t)

\* A cleanup_chrome that removes the pid file and signals nobody.
CleanupChromeNoKillMut(s) ==
    IF s.pidFile = 0 THEN s
    ELSE IF s.pidFile = Gone THEN s
    ELSE [s EXCEPT !.pidFile = 0]

\* cleanup_chrome (158-168).  os.kill of a process that is gone raises, the
\* exception is logged and the unlink (166) is skipped.
cleanup_chrome(s) ==
    IF s.pidFile = 0 THEN s
    ELSE IF s.pidFile = Gone THEN s
    ELSE [s EXCEPT !.procs[s.pidFile] =
                       IF s.procs[s.pidFile] = "booting" THEN "none" ELSE "term",
                   !.pidFile = 0]

\* A start() that pauses and retries after the last attempt as well.
EnsureChromeDoneRetriesOnMut(s, t, after) ==
    IF after = "start"
    THEN [s EXCEPT !.pc[t] = "pw_start", !.loc[t].polls = 0, !.loc[t].after = "-"]
    ELSE IF s.loc[t].attempt < max_retries
         THEN [s EXCEPT !.pc[t] = "sleep", !.loc[t].polls = 0, !.loc[t].after = "-"]
         ELSE start_raises(s, t, "ConnectFailed")

\* _ensure_chrome_running returned to its call site: line 87 (the driver is
\* started) or lines 105-108 (pause and retry, or give up).
ensure_chrome_done(s, t, after) ==
    IF after = "start"
    THEN [s EXCEPT !.pc[t] = "pw_start", !.loc[t].polls = 0, !.loc[t].after = "-"]
    ELSE IF s.loc[t].attempt < max_retries - 1
         THEN [s EXCEPT !.pc[t] = "sleep", !.loc[t].polls = 0, !.loc[t].after = "-"]
         ELSE start_raises(s, t, "ConnectFailed")

\* _ensure_chrome_running (113-130), up to the first sleep of its poll loop.
ensure_chrome_running(s, t, after) ==
    IF is_chrome_running(s) THEN ensure_chrome_done(s, t, after)
    ELSE IF ~s.exeFound THEN start_raises(s, t, "NoChromeExecutable")
    ELSE LET pid == FreshPid(s) IN
         [s EXCEPT !.procs[pid] = "booting", !.pidFile = pid, !.pc[t] = "poll", !.loc[t].polls = 0,
                   !.loc[t].after = after]

\* A poll loop that makes one health check more before it gives up.
PollChromeOneMoreMut(s, t) ==
    LET n == s.loc[t].polls + 1 IN
    IF is_chrome_running(s) THEN ensure_chrome_done(s, t, s.loc[t].after)
    ELSE IF n < StartPolls + 1 THEN [s EXCEPT !.loc[t].polls = n]
    ELSE start_raises(s, t, "ChromeStartTimeout")

\* _ensure_chrome_running (133-139): one round of the poll loop.
poll_chrome(s, t) ==
    LET n == s.loc[t].polls + 1 IN
    IF is_chrome_running(s) THEN ensure_chrome_done(s, t, s.loc[t].after)
    ELSE IF n < StartPolls THEN [s EXCEPT !.loc[t].polls = n]
    ELSE start_raises(s, t, "ChromeStartTimeout")

\* start (96-111): the except branch of a connection attempt.
connect_failed(s, t, refused) ==
    IF refused THEN ensure_chrome_running(cleanup_chrome(s), t, "retry")
    ELSE start_raises(s, t, "ConnectOther")

\* start (83-85)
start(s, t) ==
    ensure_chrome_running([s EXCEPT !.loc[t].attempt = 0], t, "start")

\* --------------------------------------------------------------- stop

\* stop (155-156), and the return to the caller: ensure_connected (189) goes
\* on with start(), on_cleanup ends.
stop_cleanup(s, t) ==
    LET s1 == cleanup_chrome(s) IN
    IF t = MainTask THEN on_cleanup_done(s1)
    ELSE start([s1 EXCEPT !.hist[t].stopped = TRUE], t)

\* A stop() that returns without the cleanup when there is no driver to stop.
StopPlaywrightSkipsCleanupMut(s, t) ==
    IF s.playwright # 0
    THEN [s EXCEPT !.pc[t] = "pw_stop", !.loc[t].obj = s.playwright]
    ELSE IF t = MainTask THEN on_cleanup_done(s)
    ELSE start([s EXCEPT !.hist[t].stopped = TRUE], t)

\* stop (149-153)
stop_playwright(s, t) ==
    IF s.playwright # 0
    THEN [s EXCEPT !.pc[t] = "pw_stop", !.loc[t].obj = s.playwright]
    ELSE stop_cleanup(s, t)

\* stop (141-147)
stop(s, t) ==
    IF s.browser # 0
    THEN [s EXCEPT !.pc[t] = "close", !.loc[t].obj = s.browser]
    ELSE stop_playwright(s, t)

\* --------------------------------------------------- ensure_connected

\* The health probe of ensure_connected (172-184).
Probe(s, raises) ==
    IF s.browser = 0 THEN "absent"
    ELSE IF raises THEN "raised"
    ELSE IF ~is_connected(s, s.browser) THEN "closed"
    ELSE IF ~has_contexts(s, s.browser) THEN "zero"
    ELSE "healthy"

\* An ensure_connected that reconnects with start() alone.
EnsureConnectedNoStopMut(s, t, raises) ==
    LET probe == Probe(s, raises)
        s1 == [s EXCEPT !.hist[t].probe = probe]
    IN  IF probe = "healthy" THEN ensure_connected_returns(s1, t)
        ELSE start(s1, t)

\* An ensure_connected that reconnects whatever the probe found.
EnsureConnectedAlwaysReconnectMut(s, t, raises) ==
    LET probe == Probe(s, raises)
        s1 == [s EXCEPT !.hist[t].probe = probe]
    IN  stop(s1, t)

\* ensure_connected (170-189)
ensure_connected(s, t, raises) ==
    LET probe == Probe(s, raises)
        s1 == [s EXCEPT !.hist[t].probe = probe]
    IN  IF probe = "healthy" THEN ensure_connected_returns(s1, t)
        ELSE stop(s1, t)

\* ------------------------------------------------------------ actions

InitSrv ==
    /\ playwright = 0 /\ browser = 0 /\ pidFile = 0
    /\ drivers = {} /\ conns = {}
    /\ connDrv = [c \in Ids |-> 0]
    /\ procs = [p \in Ids |-> "none"]
    /\ extUp \in BOOLEAN
    /\ windows \in BOOLEAN
    /\ exeFound \in BOOLEAN
    /\ phase = "boot"
    /\ scraper = 0
    /\ pc = [t \in Tasks |-> IF t = MainTask THEN "boot" ELSE "idle"]
    /\ loc = [t \in Tasks |-> Loc0]
    /\ hist = [t \in Tasks |-> Hist0]
    /\ resp = [t \in ReqTasks |-> NoResp]
    /\ cnt = [requests |-> 0, env |-> 0, constructed |-> 0, cleanups |-> 0,
              started |-> 0]

\* on_startup (265-269): scraper = ChromeService(); await scraper.start()
OnStartup ==
    /\ phase = "boot"
    /\ Commit(start([Cur EXCEPT !.phase = "starting", !.scraper = 1,
                                !.playwright = 0, !.browser = 0,
                                !.cnt.constructed = @ + 1], MainTask))

\* The serving loop ends (signal or interrupt) with no request in flight;
\* on_cleanup (273-277): if scraper: await scraper.stop()
Shutdown ==
    /\ phase = "serving"
    /\ \A t \in ReqTasks : pc[t] = "idle"
    /\ Commit(LET s == [Cur EXCEPT !.phase = "cleanup", !.cnt.cleanups = @ + 1]
              IN  IF s.scraper # 0 THEN stop(s, MainTask) ELSE on_cleanup_done(s))

\* The startup failed.  Whether the HTTP library runs the cleanup hooks of an
\* application whose startup failed depends on its version: either the
\* process ends at once, or on_cleanup runs first.
FailedExit ==
    /\ phase = "failed"
    /\ Commit([Cur EXCEPT !.phase = "exited", !.pc[MainTask] = "exited"])

FailedCleanup ==
    /\ phase = "failed"
    /\ Commit(stop([Cur EXCEPT !.phase = "cleanup", !.cnt.cleanups = @ + 1],
                   MainTask))

\* The handlers' tasks are interchangeable: a request is given to the first
\* task that is free.
Before(u, t) == u = "r1" /\ t = "r2"

\* A handle_scrape that waits while another request is inside stop() or
\* start(), as a lock around ensure_connected would make it.
RequestLockedMut(t) ==
    /\ phase = "serving"
    /\ pc[t] = "idle"
    /\ \A u \in ReqTasks : Before(u, t) => pc[u] # "idle"
    /\ cnt.requests < MaxRequests
    /\ \A u \in ReqTasks :
          pc[u] \notin {"close", "pw_stop", "poll", "pw_start", "connect", "sleep"}
    /\ LET s == [Cur EXCEPT !.cnt.requests = @ + 1, !.hist[t] = Hist0,
                            !.resp[t] = NoResp]
       IN  \/ Commit(ensure_connected(s, t, FALSE))
           \/ CanFault(s) /\ browser # 0 /\ Commit(ensure_connected(EnvStep(s), t, TRUE))
           \/ Commit(handle_scrape_raises(s, t, "BadRequest"))

\* handle_scrape (253-256): a POST /scrape arrives.  A body that is not JSON
\* or has no "url" raises in the handler: a protocol-level error.
Request(t) ==
    /\ phase = "serving"
    /\ pc[t] = "idle"
    /\ \A u \in ReqTasks : Before(u, t) => pc[u] # "idle"
    /\ cnt.requests < MaxRequests
    /\ LET s == [Cur EXCEPT !.cnt.requests = @ + 1, !.hist[t] = Hist0,
                            !.resp[t] = NoResp]
       IN  \/ Commit(ensure_connected(s, t, FALSE))
           \/ CanFault(s) /\ browser # 0 /\ Commit(ensure_connected(EnvStep(s), t, TRUE))
           \/ Commit(handle_scrape_raises(s, t, "BadRequest"))

\* The response is sent; the handler's task ends.
Respond(t) ==
    /\ pc[t] = "respond"
    /\ Commit([Cur EXCEPT !.pc[t] = "idle", !.hist[t] = Hist0,
                          !.resp[t] = NoResp])

\* stop (145): browser.close() is over.  Its exception, if any, is logged.
Close(t) ==
    /\ pc[t] = "close"
    /\ Commit(stop_playwright(
           [Cur EXCEPT !.conns = @ \ {loc[t].obj}, !.loc[t].obj = 0], t))

\* stop (151): playwright.stop() is over: the driver is gone, and with it the
\* connections made through it.  Its exception, if any, is logged.
PwStop(t) ==
    /\ pc[t] = "pw_stop"
    /\ Commit(stop_cleanup(
           [Cur EXCEPT !.drivers = @ \ {loc[t].obj},
                       !.conns = {c \in @ : connDrv[c] # loc[t].obj},
                       !.loc[t].obj = 0], t))

\* _ensure_chrome_running (134): asyncio.sleep(1) is over.
Poll(t) ==
    /\ pc[t] = "poll"
    /\ Commit(poll_chrome(Cur, t))

\* start (87): async_playwright().start() is over, and the first connection
\* attempt (93) is under way.
PwStart(t) ==
    /\ pc[t] = "pw_start"
    /\ \/ LET d == FreshDriver(Cur) IN
          Commit([Cur EXCEPT !.drivers = @ \cup {d}, !.playwright = d,
                             !.pc[t] = "connect", !.loc[t].obj = d,
                             !.loc[t].attempt = 0])
       \/ CanFault(Cur) /\ Commit(start_raises(EnvStep(Cur), t, "DriverStartError"))

\* start (93-111): connect_over_cdp is over.  It succeeds only with a running
\* driver and a listening browser; the message of its error decides (99)
\* whether the failure is of the connection-refused class.
Connect(t) ==
    /\ pc[t] = "connect"
    /\ LET s == [Cur EXCEPT !.loc[t].obj = 0]
       IN  \/ /\ loc[t].obj \in drivers
              /\ is_chrome_running(Cur)
              /\ LET c == FreshConn(Cur) IN
                 Commit(start_returns(
                     [s EXCEPT !.conns = @ \cup {c}, !.connDrv[c] = loc[t].obj,
                               !.browser = c], t))
           \/ /\ ~(loc[t].obj \in drivers /\ is_chrome_running(Cur))
              /\ Commit(connect_failed(s, t, TRUE))
           \/ /\ CanFault(Cur)
              /\ \E refused \in BOOLEAN :
                     Commit(connect_failed(EnvStep(s), t, refused))

\* start (106): asyncio.sleep(2) is over; the next attempt (93) uses the
\* driver self.playwright names now.
Sleep(t) ==
    /\ pc[t] = "sleep"
    /\ Commit([Cur EXCEPT !.pc[t] = "connect", !.loc[t].obj = playwright,
                          !.loc[t].attempt = @ + 1])

\* The results scrape can build.  error is "null" for None; str(e) of an
\* exception may be the empty string.
SuccessResults ==
    {[title |-> ti, markdown |-> md, error |-> "null"] :
        ti \in {"T"}, md \in {"", "M"}}
FailureResults ==
    {[title |-> "", markdown |-> "", error |-> msg] : msg \in {"", "E"}}

\* scrape (211): context.new_page() is over.  It is called outside the try
\* block: its exception leaves scrape.
NewPage(t) ==
    /\ pc[t] = "new_page"
    /\ \/ /\ loc[t].obj \in conns
          /\ Commit([Cur EXCEPT !.pc[t] = "page"])
       \/ /\ loc[t].obj \notin conns
          /\ Commit(handle_scrape_raises(Cur, t, "NewPageError"))
       \/ /\ CanFault(Cur)
          /\ Commit(handle_scrape_raises(EnvStep(Cur), t, "NewPageError"))

\* scrape (213-244): the try block.  goto, the pause, title, query_selector,
\* inner_html, content and extract either all succeed (240: markdown is
\* extract(...) or "") or one of them raises (242-244).  The result is held
\* while the finally clause (246) awaits page.close().
Page(t) ==
    /\ pc[t] = "page"
    /\ \E r \in SuccessResults \cup FailureResults :
         /\ r \in SuccessResults => loc[t].obj \in conns
         /\ Commit([Cur EXCEPT !.pc[t] = "page_close", !.loc[t].result = r])

\* scrape (245-246): page.close() is over.  Its exception replaces the
\* pending return.
PageClose(t) ==
    /\ pc[t] = "page_close"
    /\ \/ Commit(handle_scrape_returns(Cur, t, loc[t].result))
       \/ /\ loc[t].obj \notin conns
          /\ Commit(handle_scrape_raises(Cur, t, "PageCloseError"))
       \/ /\ CanFault(Cur)
          /\ Commit(handle_scrape_raises(EnvStep(Cur), t, "PageCloseError"))

\* ------------------------------------------------- the environment

\* A launched browser has bound the debugging port.
ChromeReady(p) ==
    /\ procs[p] = "booting"
    /\ ~is_chrome_running(Cur)
    /\ Commit([Cur EXCEPT !.procs[p] = "up"])

\* A browser that was sent SIGTERM has exited; its connections are closed.
ChromeExit(p) ==
    /\ procs[p] = "term"
    /\ Commit([Cur EXCEPT !.procs[p] = "none",
                          !.conns = IF extUp THEN @ ELSE {}])

\* A launched browser crashes or is killed by the user.
ChromeCrash(p) ==
    /\ procs[p] \in {"booting", "up"}
    /\ CanFault(Cur)
    /\ Commit(EnvStep([Cur EXCEPT !.procs[p] = "none",
                                  !.conns = IF procs[p] = "up" THEN {} ELSE @]))

\* The browser this process did not launch goes away.
ExtCrash ==
    /\ extUp
    /\ CanFault(Cur)
    /\ Commit(EnvStep([Cur EXCEPT !.extUp = FALSE, !.conns = {}]))

\* The user closes the last browser window, or opens one.
WindowsChange ==
    /\ CanFault(Cur)
    /\ Commit(EnvStep([Cur EXCEPT !.windows = ~@]))

Next ==
    \/ OnStartup \/ Shutdown \/ FailedExit \/ FailedCleanup
    \/ \E t \in ReqTasks : Request(t) \/ Respond(t) \/ NewPage(t) \/ Page(t) \/ PageClose(t)
    \/ \E t \in Tasks : Close(t) \/ PwStop(t) \/ Poll(t) \/ PwStart(t) \/ Connect(t) \/ Sleep(t)
    \/ \E p \in Ids : ChromeReady(p) \/ ChromeExit(p) \/ ChromeCrash(p)
    \/ ExtCrash \/ WindowsChange

\* ================================================== the dispatcher

Dispatchers == {"d1", "d2"}

\* cli.py:121 for _ in range(50)
DaemonStartPolls == 50

DH0 == [url_type |-> "none", chk1 |-> "none", chk2 |-> "none", chk3 |-> "none",
        spawned |-> 0, waited |-> "none", ret |-> "none", daemon |-> "none", web |-> "none",
        result |-> "none", scratch |-> "none", pdf |-> "none",
        exit |-> 0 - 1, msg |-> "none"]

\* is_daemon_running (9-29): the socket file exists and a connection to it
\* is accepted.
is_daemon_running(sk) == sk = "live"
Seen(sk) == IF is_daemon_running(sk) THEN "live" ELSE "dead"

InitCli ==
    /\ sock \in {"missing", "stale", "live"}
    /\ booting = 0
    /\ dpc = [d \in Dispatchers |-> "start"]
    /\ dpolls = [d \in Dispatchers |-> 0]
    /\ dh = [d \in Dispatchers |-> DH0]

IdleCli ==
    /\ sock = "missing"
    /\ booting = 0
    /\ dpc = [d \in Dispatchers |-> "start"]
    /\ dpolls = [d \in Dispatchers |-> 0]
    /\ dh = [d \in Dispatchers |-> DH0]

\* The dispatcher processes are interchangeable: d2 is the one that starts
\* second.
DBefore(d) == d = "d2" => dpc["d1"] # "start"

\* scrape_url (60-67, 91-97): the URL is classified; a video or a document
\* is converted directly, for a web URL the socket is checked (67).
\* scrape_pdf (22-24) begins by creating its scratch file.  Before any of
\* this the output directory is made (57), which can fail with OSError.
ScrapeUrl(d) ==
    /\ dpc[d] = "start"
    /\ DBefore(d)
    /\ \E ty \in {"web", "youtube", "pdf"}, direct \in {"path", "RuntimeError", "OSError"} :
         IF direct = "OSError"
         THEN /\ ty = "web"
              /\ dh' = [dh EXCEPT ![d].result = direct]
              /\ dpc' = [dpc EXCEPT ![d] = "done"]
         ELSE IF ty = "web"
         THEN /\ dh' = [dh EXCEPT ![d].url_type = ty, ![d].chk1 = Seen(sock)]
              /\ dpc' = [dpc EXCEPT ![d] =
                            IF is_daemon_running(sock) THEN "check3" ELSE "check2"]
         ELSE IF ty = "pdf"
         THEN /\ direct = "path"
              /\ dh' = [dh EXCEPT ![d].url_type = ty, ![d].scratch = "exists"]
              /\ dpc' = [dpc EXCEPT ![d] = "pdf_download"]
         ELSE /\ dh' = [dh EXCEPT ![d].url_type = ty, ![d].result = direct]
              /\ dpc' = [dpc EXCEPT ![d] = "done"]
    /\ UNCHANGED <<sock, booting, dpolls, srvVars, outVars, funVars>>

\* start_daemon_background without its own check: it spawns whatever the
\* socket's state.
SpawnWithoutCheckMut(d) ==
    /\ dpc[d] = "check2"
    /\ dh' = [dh EXCEPT ![d].chk2 = Seen(sock), ![d].spawned = @ + 1]
    /\ booting' = booting + 1
    /\ dpolls' = [dpolls EXCEPT ![d] = 0]
    /\ dpc' = [dpc EXCEPT ![d] = "poll"]
    /\ UNCHANGED <<sock, srvVars, outVars, funVars>>

\* start_daemon_background (106-118): the socket is checked again; if nobody
\* accepts, the daemon is spawned.
StartDaemonBackground(d) ==
    /\ dpc[d] = "check2"
    /\ IF is_daemon_running(sock)
       THEN /\ dh' = [dh EXCEPT ![d].chk2 = "live", ![d].ret = "False"]
            /\ dpc' = [dpc EXCEPT ![d] = "check3"]
            /\ UNCHANGED <<booting, dpolls>>
       ELSE /\ dh' = [dh EXCEPT ![d].chk2 = "dead", ![d].spawned = @ + 1]
            /\ booting' = booting + 1
            /\ dpolls' = [dpolls EXCEPT ![d] = 0]
            /\ dpc' = [dpc EXCEPT ![d] = "poll"]
    /\ UNCHANGED <<sock, srvVars, outVars, funVars>>

\* start_daemon_background (121-127): one round of the wait loop.
PollDaemon(d) ==
    /\ dpc[d] = "poll"
    /\ LET n == dpolls[d] + 1 IN
       IF is_daemon_running(sock)
       THEN /\ dh' = [dh EXCEPT ![d].waited = "live", ![d].ret = "True"]
            /\ dpc' = [dpc EXCEPT ![d] = "check3"]
            /\ dpolls' = [dpolls EXCEPT ![d] = 0]
       ELSE IF n < DaemonStartPolls
            THEN /\ dpolls' = [dpolls EXCEPT ![d] = n]
                 /\ UNCHANGED <<dh, dpc>>
            ELSE /\ dh' = [dh EXCEPT ![d].waited = "timeout", ![d].ret = "False"]
                 /\ dpc' = [dpc EXCEPT ![d] = "check3"]
                 /\ dpolls' = [dpolls EXCEPT ![d] = 0]
    /\ UNCHANGED <<sock, booting, srvVars, outVars, funVars>>

\* scrape_url (78-88): the daemon is used if the socket is live now,
\* otherwise the standalone scraper.
UseDaemonIfAvailable(d) ==
    /\ dpc[d] = "check3"
    /\ dh' = [dh EXCEPT ![d].chk3 = Seen(sock)]
    /\ dpc' = [dpc EXCEPT ![d] = IF is_daemon_running(sock) THEN "daemon" ELSE "web"]
    /\ UNCHANGED <<sock, booting, dpolls, srvVars, outVars, funVars>>

\* What the request to the daemon can end in: a result without error, a
\* connection failure (aiohttp.ClientError), a status other than 200, a
\* result with an error, the 60-second total timeout.
DaemonOutcomes == {"ok", "ClientError", "BadStatus", "ErrorField", "Timeout"}

\* scrape_via_daemon (52-70): the exception that leaves it.  ClientError is
\* wrapped (65-66), the status and the error field raise RuntimeError (61,
\* 70); the timeout is raised as asyncio.TimeoutError, which is no
\* ClientError and is not caught.
scrape_via_daemon_raises(o) ==
    IF o = "ok" THEN "none"
    ELSE IF o = "Timeout" THEN "TimeoutError"
    ELSE "RuntimeError"

\* scrape_url (79-85): scrape_via_daemon is over; except RuntimeError falls
\* through to the standalone scraper, any other exception leaves scrape_url.
ScrapeViaDaemon(d) ==
    /\ dpc[d] = "daemon"
    /\ \E o \in DaemonOutcomes :
         /\ (o \in {"ok", "BadStatus", "ErrorField"}) => sock = "live"
         /\ LET e == scrape_via_daemon_raises(o) IN
            /\ dh' = [dh EXCEPT ![d].daemon = o,
                                ![d].result = IF e = "none" THEN "path"
                                              ELSE IF e = "RuntimeError" THEN @
                                              ELSE e]
            /\ dpc' = [dpc EXCEPT ![d] = IF e = "RuntimeError" THEN "web" ELSE "done"]
    /\ UNCHANGED <<sock, booting, dpolls, srvVars, outVars, funVars>>

\* scrape_url (88): the standalone scraper; scrape_web raises RuntimeError
\* when the page cannot be fetched or nothing can be extracted.
ScrapeWeb(d) ==
    /\ dpc[d] = "web"
    /\ \E o \in {"path", "RuntimeError"} :
         dh' = [dh EXCEPT ![d].web = o, ![d].result = o]
    /\ dpc' = [dpc EXCEPT ![d] = "done"]
    /\ UNCHANGED <<sock, booting, dpolls, srvVars, outVars, funVars>>

\* scrape_pdf (26-29): urlretrieve is over.  The handler of its exception
\* raises RuntimeError and removes nothing.
PdfDownload(d) ==
    /\ dpc[d] = "pdf_download"
    /\ \/ /\ dpc' = [dpc EXCEPT ![d] = "pdf_convert"]
          /\ UNCHANGED dh
       \/ /\ dh' = [dh EXCEPT ![d].pdf = "download", ![d].result = "RuntimeError"]
          /\ dpc' = [dpc EXCEPT ![d] = "done"]
    /\ UNCHANGED <<sock, booting, dpolls, srvVars, outVars, funVars>>

\* tmp_path.unlink(missing_ok=True) (37, 40)
unlink_scratch(h) == [h EXCEPT !.scratch = "removed"]

\* scrape_pdf (32-40, 43-70): the conversion is over.  Its handler unlinks
\* the scratch file (37) and raises; the finally clause (40) unlinks it on
\* both branches.  After a conversion the output file is written.
PdfConvert(d) ==
    /\ dpc[d] = "pdf_convert"
    /\ \/ dh' = [dh EXCEPT ![d] = [unlink_scratch(@) EXCEPT
                                      !.pdf = "success", !.result = "path"]]
       \/ dh' = [dh EXCEPT ![d] = [unlink_scratch(unlink_scratch(@)) EXCEPT
                                      !.pdf = "conversion", !.result = "RuntimeError"]]
    /\ dpc' = [dpc EXCEPT ![d] = "done"]
    /\ UNCHANGED <<sock, booting, dpolls, srvVars, outVars, funVars>>

\* main (282-293): asyncio.run(scrape_url(...)) is over.  The path is
\* printed and the process ends with code 0; RuntimeError is reported as
\* "Error: ..." and any other exception as "Unexpected error: ...", with
\* code 1.
ExitMain(d) ==
    /\ dpc[d] = "done"
    /\ dh' = [dh EXCEPT
                ![d].exit = IF dh[d].result = "path" THEN 0 ELSE 1,
                ![d].msg = IF dh[d].result = "path" THEN "path"
                           ELSE IF dh[d].result = "RuntimeError" THEN "Error: "
                           ELSE "Unexpected error: "]
    /\ dpc' = [dpc EXCEPT ![d] = "exited"]
    /\ UNCHANGED <<sock, booting, dpolls, srvVars, outVars, funVars>>

\* main (287-289): the user interrupts the process while scrape_url runs.
\* KeyboardInterrupt is no Exception: no handler inside scrape_url catches
\* it.
Interrupt(d) ==
    /\ dpc[d] \notin {"start", "done", "exited"}
    /\ dh' = [dh EXCEPT ![d].result = "KeyboardInterrupt", ![d].exit = 130,
                        ![d].msg = "Interrupted"]
    /\ dpc' = [dpc EXCEPT ![d] = "exited"]
    /\ dpolls' = [dpolls EXCEPT ![d] = 0]
    /\ UNCHANGED <<sock, booting, srvVars, outVars, funVars>>

\* A spawned daemon (chrome_service.main, 314-315) removes the socket file,
\* whoever listens on it.
DaemonUnlinks ==
    /\ booting > 0
    /\ sock # "missing"
    /\ sock' = "missing"
    /\ UNCHANGED <<booting, dpc, dpolls, dh, srvVars, outVars, funVars>>

\* A spawned daemon (chrome_service.main, 317-319) binds the socket once
\* its startup is over.
DaemonBinds ==
    /\ booting > 0
    /\ booting' = booting - 1
    /\ sock' = "live"
    /\ UNCHANGED <<dpc, dpolls, dh, srvVars, outVars, funVars>>

\* A spawned daemon ends before it serves (its startup failed).
DaemonFails ==
    /\ booting > 0
    /\ booting' = booting - 1
    /\ UNCHANGED <<sock, dpc, dpolls, dh, srvVars, outVars, funVars>>

\* The serving daemon ends; the socket file is left behind or removed.
DaemonEnds ==
    /\ sock = "live"
    /\ sock' \in {"stale", "missing"}
    /\ UNCHANGED <<booting, dpc, dpolls, dh, srvVars, outVars, funVars>>

NextCli ==
    \/ \E d \in Dispatchers :
          \/ ScrapeUrl(d) \/ StartDaemonBackground(d) \/ PollDaemon(d)
          \/ UseDaemonIfAvailable(d) \/ ScrapeViaDaemon(d) \/ ScrapeWeb(d)
          \/ PdfDownload(d) \/ PdfConvert(d) \/ ExitMain(d) \/ Interrupt(d)
    \/ DaemonUnlinks \/ DaemonBinds \/ DaemonFails \/ DaemonEnds

\* ----------------------------------------- the servers the dispatchers spawn

\* The dispatchers of web URLs together with the server processes they
\* spawn, each server stepping through its main (chrome_service.py 290-322).
\* ret holds where each server stands, whose pid chrome_service.pid holds
\* and who bound the socket file (0: no file, Gone: a process of an earlier
\* run); sock is what a connection to the socket path finds, booting the
\* servers spawned that have not yet bound or ended.
Servers == {1, 2}

InitSpawn ==
    /\ sock \in {"missing", "stale"}
    /\ booting = 0
    /\ dpc = [d \in Dispatchers |-> "start"]
    /\ dpolls = [d \in Dispatchers |-> 0]
    /\ dh = [d \in Dispatchers |-> DH0]
    /\ call = [fn |-> "servers"]
    /\ ret = [at |-> "servers", srv |-> [i \in Servers |-> "none"],
              pidfile |-> IF sock = "stale" THEN Gone ELSE 0,
              sockfile |-> IF sock = "stale" THEN Gone ELSE 0]

\* scrape_url (60-67) for a web URL.
WebScrapeUrl(d) == ScrapeUrl(d) /\ dh'[d].url_type = "web"

\* The servers that run and have not bound the socket.
Starting == {i \in Servers : ret.srv[i] \in {"unlink_socket", "on_startup", "bind"}}

SrvStep(r, sk, b) ==
    /\ ret' = r /\ sock' = sk /\ booting' = b
    /\ UNCHANGED <<call, dpc, dpolls, dh, srvVars, outVars>>

\* main (300-303) of a spawned server: its pid replaces the content of the
\* pid file.
SrvWritePid(i) ==
    /\ ret.srv[i] = "none"
    /\ i = 2 => ret.srv[1] # "none"
    /\ Cardinality(Starting) < booting
    /\ SrvStep([ret EXCEPT !.srv[i] = "unlink_socket", !.pidfile = i], sock, booting)

\* main (314-315): the socket file is removed, whoever listens on it.
SrvUnlinkSocket(i) ==
    /\ ret.srv[i] = "unlink_socket"
    /\ SrvStep([ret EXCEPT !.srv[i] = "on_startup", !.sockfile = 0], "missing", booting)

\* on_startup (265-270): start() returns, or raises and the server ends
\* through the finally clause (320-322), which removes the pid file whatever
\* pid it holds.
SrvOnStartup(i) ==
    /\ ret.srv[i] = "on_startup"
    /\ \/ SrvStep([ret EXCEPT !.srv[i] = "bind"], sock, booting)
       \/ SrvStep([ret EXCEPT !.srv[i] = "exited", !.pidfile = 0], sock, booting - 1)

\* main (319): run_app binds the socket path, replacing a socket file that
\* is there, and serves.
SrvBind(i) ==
    /\ ret.srv[i] = "bind"
    /\ SrvStep([ret EXCEPT !.srv[i] = "serving", !.sockfile = i], "live", booting - 1)

NextSpawn ==
    \/ \E d \in Dispatchers :
          \/ WebScrapeUrl(d) \/ StartDaemonBackground(d) \/ PollDaemon(d)
          \/ UseDaemonIfAvailable(d) \/ ScrapeViaDaemon(d) \/ ScrapeWeb(d)
          \/ ExitMain(d)
    \/ \E i \in Servers :
          SrvWritePid(i) \/ SrvUnlinkSocket(i) \/ SrvOnStartup(i) \/ SrvBind(i)

\* ================================================ the output directory

MaxScrapes == 3

\* The titles scraped: none, a word, words with separators, separators
\* only, and a title whose slug ends like a collision suffix.
Titles == { <<>>, <<"a">>, <<"1">>, <<"a", " ", "1">>,
            <<" ", "a", "/", " ", "1", "/">>, <<"/", " ">> }

\* web.py:78 title[:50]
TitleChars == 50

\* str.isalnum on the characters of the titles
isalnum(c) == c \in {"a", "1"}

untitled == <<"u", "n", "t", "i", "t", "l", "e", "d">>

\* str.split("_") followed by filter(None, ...): the non-empty runs
\* between underscores, in order (cur is the run being read).
RECURSIVE split_filter(_, _)
split_filter(str, cur) ==
    IF str = <<>> THEN (IF cur = <<>> THEN <<>> ELSE <<cur>>)
    ELSE IF Head(str) = "_"
         THEN (IF cur = <<>> THEN <<>> ELSE <<cur>>) \o split_filter(Tail(str), <<>>)
         ELSE split_filter(Tail(str), Append(cur, Head(str)))

\* "_".join(parts)
RECURSIVE join(_)
join(parts) ==
    IF parts = <<>> THEN <<>>
    ELSE IF Len(parts) = 1 THEN parts[1]
    ELSE parts[1] \o <<"_">> \o join(Tail(parts))

\* web.py 78-81, daemon_client.py 90-99: the first 50 characters, every
\* character that is not alphanumeric replaced by an underscore, runs of
\* underscores collapsed and trimmed, "untitled" if nothing is left.
safe_title(title) ==
    LET cut == SubSeq(title, 1, IF Len(title) < TitleChars THEN Len(title) ELSE TitleChars)
        und == [i \in 1..Len(cut) |-> IF isalnum(cut[i]) THEN cut[i] ELSE "_"]
        col == join(split_filter(und, <<>>))
    IN  IF col = <<>> THEN untitled ELSE col

\* str(counter)
RECURSIVE str(_)
str(n) ==
    LET digit(k) == <<"0", "1", "2", "3", "4", "5", "6", "7", "8", "9">>[k + 1]
    IN  IF n < 10 THEN <<digit(n)>> ELSE str(n \div 10) \o <<digit(n % 10)>>

md(stem) == stem \o <<".md">>

\* The loop without its test: the first name is taken as it is.
OverwriteMut(dir, filename, output_file, counter) == output_file

\* web.py 84-88, daemon_client.py 102-106: while output_file.exists() the
\* next suffixed name is tried.
RECURSIVE unique_name(_, _, _, _)
unique_name(dir, filename, output_file, counter) ==
    IF output_file \in DOMAIN dir
    THEN unique_name(dir, filename, md(filename \o <<"_">> \o str(counter)), counter + 1)
    ELSE output_file

InitOut ==
    /\ files = <<>>
    /\ scrapes = <<>>
    /\ before = <<>>

IdleOut == InitOut

\* web.py 64-92, daemon_client.py 73-111: one scrape saves its result; the
\* content written carries the title.
SaveMarkdown ==
    /\ Len(scrapes) < MaxScrapes
    /\ \E title \in Titles :
         LET filename == safe_title(title)
             output_file == unique_name(files, filename, md(filename), 1)
         IN  /\ files' = (output_file :> title) @@ files
             /\ scrapes' = Append(scrapes, [title |-> title, slug |-> filename,
                                            path |-> output_file])
             /\ before' = files
    /\ UNCHANGED <<srvVars, cliVars, funVars>>

NextOut == SaveMarkdown

\* ------------------------------------ two scrapes saving at the same time

\* Two scrapes, each in its own process, save into one directory.  scrapes
\* holds for each of them its title, its slug, the name it is trying, its
\* counter and where it stands; before is the directory they found.
Writers == {1, 2}

\* The directory before the scrapes: empty, or with earlier results.
Dirs0 == { <<>>,
           md(<<"a">>) :> [title |-> <<"a">>, by |-> 0],
           (md(<<"a">>) :> [title |-> <<"a">>, by |-> 0])
               @@ (md(<<"a", "_", "1">>) :> [title |-> <<"a">>, by |-> 0]) }

InitWriters ==
    /\ files \in Dirs0
    /\ before = files
    /\ \E t1, t2 \in Titles :
          scrapes = [w \in Writers |->
                        [title |-> IF w = 1 THEN t1 ELSE t2, slug |-> <<>>,
                         path |-> <<>>, counter |-> 0, at |-> "title"]]

\* web.py 78-85, daemon_client.py 90-103: the slug, the first name, counter = 1.
FirstName(w) ==
    /\ scrapes[w].at = "title"
    /\ LET filename == safe_title(scrapes[w].title)
       IN  scrapes' = [scrapes EXCEPT ![w].slug = filename,
                                     ![w].path = md(filename),
                                     ![w].counter = 1, ![w].at = "exists"]
    /\ UNCHANGED <<files, before, srvVars, cliVars, funVars>>

\* web.py 86-88, daemon_client.py 104-106: one test of the while loop; a
\* name that exists gives way to the next suffixed name.
Exists(w) ==
    /\ scrapes[w].at = "exists"
    /\ scrapes' =
          IF scrapes[w].path \in DOMAIN files
          THEN [scrapes EXCEPT
                   ![w].path = md(scrapes[w].slug \o <<"_">> \o str(scrapes[w].counter)),
                   ![w].counter = @ + 1]
          ELSE [scrapes EXCEPT ![w].at = "write"]
    /\ UNCHANGED <<files, before, srvVars, cliVars, funVars>>

\* web.py 90, daemon_client.py 109: write_text creates the file or replaces
\* its content.
WriteText(w) ==
    /\ scrapes[w].at = "write"
    /\ files' = [p \in DOMAIN files \cup {scrapes[w].path} |->
                    IF p = scrapes[w].path
                    THEN [title |-> scrapes[w].title, by |-> w]
                    ELSE files[p]]
    /\ scrapes' = [scrapes EXCEPT ![w].at = "done"]
    /\ UNCHANGED <<before, srvVars, cliVars, funVars>>

NextWriters == \E w \in Writers : FirstName(w) \/ Exists(w) \/ WriteText(w)

\* ======================================== functions called on their own

\* Nothing is called yet, nothing has returned yet.
NoCall == [fn |-> "-"]
NoRet == [at |-> "-"]

IdleFun == call = NoCall /\ ret = NoRet

\* All sequences over S of length at most n.
SeqsUpTo(S, n) == UNION {[1..k -> S] : k \in 0..n}

\* ------------------------------------------------ the metadata header

MaxTitleLen == 3

\* The characters of the titles: a letter, the colon, the space, the double
\* quote and the line break.
TitleAlphabet == {"a", ":", " ", "\"", "\n"}
HeaderTitles == SeqsUpTo(TitleAlphabet, MaxTitleLen)

\* The scrapers that write a title.
HeaderWriters == {"web", "daemon", "youtube"}

\* The header's other lines, each one character of the text here.
EntryLines == {"url: U", "source: web", "source: YouTube", "video_id: V",
               "duration: D", "upload_date: X"}

\* web.py 65-69, daemon_client.py 77-81, youtube.py 89-96: the text between
\* the two --- lines; the title is interpolated as it is.
frontmatter(writer, title) ==
    <<"url: U", "\n", "title", ":", " ">> \o title \o
    (IF writer = "youtube"
     THEN <<"\n", "source: YouTube", "\n", "video_id: V", "\n", "duration: D",
            "\n", "upload_date: X", "\n">>
     ELSE <<"\n", "source: web", "\n">>)

\* str.split("\n")
RECURSIVE split_lines(_, _)
split_lines(text, cur) ==
    IF text = <<>> THEN <<cur>>
    ELSE IF Head(text) = "\n" THEN <<cur>> \o split_lines(Tail(text), <<>>)
    ELSE split_lines(Tail(text), Append(cur, Head(text)))

RECURSIVE lstrip(_)
lstrip(l) == IF l # <<>> /\ Head(l) = " " THEN lstrip(Tail(l)) ELSE l
RECURSIVE rstrip(_)
rstrip(l) == IF l # <<>> /\ l[Len(l)] = " " THEN rstrip(SubSeq(l, 1, Len(l) - 1)) ELSE l
strip(l) == rstrip(lstrip(l))

\* What the YAML loader gives for the title instead of a string.
YamlError == <<"YAMLError">>
YamlNull == <<"None">>
YamlMapping == <<"dict">>

\* A colon followed by a space or the end of the line: the value indicator.
value_indicator(v) ==
    \E i \in 1..Len(v) : v[i] = ":" /\ (i = Len(v) \/ v[i + 1] = " ")

\* A line at column 0 that is an entry of the mapping.
is_entry(l) ==
    l # <<>> /\ Head(l) # " " /\ (Head(l) \in EntryLines \/ value_indicator(l))

\* Line folding: one break is a space, n breaks are n - 1 line breaks.
fold(breaks) == IF breaks = 1 THEN <<" ">> ELSE [i \in 1..(breaks - 1) |-> "\n"]

\* A plain scalar goes on over the lines that are blank or indented and
\* ends at the next entry; a value indicator inside it is an error, and a
\* line at column 0 that is no entry is one too.
RECURSIVE plain_scalar(_, _, _)
plain_scalar(lines, acc, breaks) ==
    IF lines = <<>> THEN (IF acc = <<>> THEN YamlNull ELSE acc)
    ELSE LET l == Head(lines) IN
         IF strip(l) = <<>> THEN plain_scalar(Tail(lines), acc, breaks + 1)
         ELSE IF Head(l) # " "
              THEN (IF ~is_entry(l) THEN YamlError
                    ELSE IF acc = <<>> THEN YamlNull ELSE acc)
         ELSE IF value_indicator(strip(l))
              THEN (IF acc = <<>> THEN YamlMapping ELSE YamlError)
         ELSE plain_scalar(Tail(lines),
                           IF acc = <<>> THEN strip(l)
                           ELSE acc \o fold(breaks) \o strip(l), 1)

\* The content of a double-quoted scalar, folded.
RECURSIVE quoted_fold(_, _, _)
quoted_fold(lines, acc, breaks) ==
    IF lines = <<>> THEN acc
    ELSE LET l == Head(lines)
             piece == IF Len(lines) = 1 THEN lstrip(l) ELSE strip(l)
         IN  IF strip(l) = <<>> /\ Len(lines) > 1
             THEN quoted_fold(Tail(lines), acc, breaks + 1)
             ELSE quoted_fold(Tail(lines), acc \o fold(breaks) \o piece, 1)

\* After a quoted scalar: the rest of its line is blank and the lines that
\* follow are blank or entries.
RECURSIVE entries_only(_)
entries_only(lines) ==
    \/ lines = <<>>
    \/ /\ strip(Head(lines)) = <<>> \/ is_entry(Head(lines))
       /\ (is_entry(Head(lines)) \/ entries_only(Tail(lines)))

\* A double-quoted scalar ends at the next double quote (the titles hold no
\* backslash); without one the loader reads on to the end of the header.
quoted_scalar(text) ==
    IF ~\E i \in 1..Len(text) : text[i] = "\""
    THEN YamlError
    ELSE LET close == CHOOSE i \in 1..Len(text) :
                          text[i] = "\"" /\ \A j \in 1..(i - 1) : text[j] # "\""
             inner == split_lines(SubSeq(text, 1, close - 1), <<>>)
             after == split_lines(SubSeq(text, close + 1, Len(text)), <<>>)
         IN  IF strip(Head(after)) # <<>> \/ ~entries_only(Tail(after))
             THEN YamlError
             ELSE IF Len(inner) = 1 THEN inner[1]
             ELSE quoted_fold(Tail(inner), rstrip(inner[1]), 1)

\* yaml.safe_load of the header (tests/test_frontmatter.py 29), read for
\* the title: the value after "title:" is a double-quoted scalar if it
\* starts with a double quote and a plain scalar otherwise.
yaml_title(header) ==
    LET at == CHOOSE i \in 1..Len(header) : header[i] = "title"
        text == lstrip(SubSeq(header, at + 2, Len(header)))
        lines == split_lines(SubSeq(header, at + 2, Len(header)), <<>>)
        first == strip(Head(lines))
    IN  IF first # <<>> /\ Head(first) = "\""
        THEN quoted_scalar(Tail(text))
        ELSE IF value_indicator(first) THEN YamlError
        ELSE plain_scalar(Tail(lines), first, 1)

InitHeader ==
    /\ call \in {[fn |-> w, title |-> t] : w \in HeaderWriters, t \in HeaderTitles}
    /\ ret = NoRet

\* The scraper writes the header.
WriteHeader ==
    /\ ret.at = "-"
    /\ ret' = [at |-> "written", header |-> frontmatter(call.fn, call.title)]
    /\ UNCHANGED <<call, srvVars, cliVars, outVars>>

\* A reader of the file parses it.
ParseHeader ==
    /\ ret.at = "written"
    /\ ret' = [at |-> "parsed", header |-> ret.header,
               parsed |-> yaml_title(ret.header)]
    /\ UNCHANGED <<call, srvVars, cliVars, outVars>>

NextHeader == WriteHeader \/ ParseHeader

\* ------------------------------------------ the two savers of a web page

\* What was extracted from the page: nothing, or text.
Markdowns == { <<>>, <<"M">> }

\* web.py 65-74, daemon_client.py 77-84: the text of the file.  web.py puts a
\* heading with the title between the header and the text.
file_content(writer, title, markdown) ==
    <<"---", "\n">> \o frontmatter(writer, title) \o <<"---", "\n", "\n">> \o
    (IF writer = "web" THEN <<"# ">> \o title \o <<"\n", "\n">> ELSE <<>>) \o
    markdown \o <<"\n">>

\* daemon_client.py 90-99: the slug of a title, "untitled" for an empty one.
daemon_filename(title) ==
    IF title # <<>> THEN safe_title(title) ELSE untitled

\* web.py 61-92 with the page fetched: no text is an error, otherwise the
\* file is named and written.
scrape_web_save(dir, title, markdown) ==
    IF markdown = <<>>
    THEN [exc |-> "RuntimeError", path |-> <<>>, content |-> <<>>]
    ELSE [exc |-> "none",
          path |-> unique_name(dir, safe_title(title), md(safe_title(title)), 1),
          content |-> file_content("web", title, markdown)]

\* daemon_client.py 72-111 with the server's answer at hand.
scrape_via_daemon_save(dir, title, markdown) ==
    [exc |-> "none",
     path |-> unique_name(dir, daemon_filename(title), md(daemon_filename(title)), 1),
     content |-> file_content("daemon", title, markdown)]

NotSaved == [exc |-> "-", path |-> <<>>, content |-> <<>>]

\* The same title and text are given to both savers, each with the same
\* directory before it.
InitSave ==
    /\ call \in [fn : {"save"}, title : Titles, markdown : Markdowns, dir : Dirs0]
    /\ ret = [at |-> "save", web |-> NotSaved, daemon |-> NotSaved]

SaveWeb ==
    /\ ret.at = "save" /\ ret.web = NotSaved
    /\ ret' = [ret EXCEPT !.web = scrape_web_save(call.dir, call.title, call.markdown)]
    /\ UNCHANGED <<call, srvVars, cliVars, outVars>>

SaveDaemon ==
    /\ ret.at = "save" /\ ret.daemon = NotSaved
    /\ ret' = [ret EXCEPT !.daemon =
                   scrape_via_daemon_save(call.dir, call.title, call.markdown)]
    /\ UNCHANGED <<call, srvVars, cliVars, outVars>>

NextSave == SaveWeb \/ SaveDaemon

\* ------------------------------------- one scrape_url call for a web URL

\* scrape_url (77-88) for a web URL, from its last check of the socket, with
\* scrape_via_daemon (52-111) and scrape_web stepped through.  files is the
\* output directory, before the directory as the call found it, scrapes the
\* files the call has written and by whom; ret holds where the call stands,
\* what the request to the daemon ended in, and what leaves scrape_url.
InitFallback ==
    /\ call \in [fn : {"scrape_url"}, title : Titles, markdown : Markdowns, dir : Dirs0]
    /\ files = call.dir
    /\ before = call.dir
    /\ scrapes = <<>>
    /\ ret = [at |-> "check3", daemon |-> "none", web |-> "none", result |-> "none"]

FbStep(r, fs, ws) ==
    /\ ret' = r /\ files' = fs /\ scrapes' = ws
    /\ UNCHANGED <<call, before, srvVars, cliVars>>

\* write_text (daemon_client.py 109, web.py 90)
write_text(dir, path, content) ==
    [p \in DOMAIN dir \cup {path} |-> IF p = path THEN content ELSE dir[p]]

\* scrape_url (78): the daemon is used if the socket is live.
FbUseDaemonIfAvailable ==
    /\ ret.at = "check3"
    /\ \E live \in BOOLEAN :
          FbStep([ret EXCEPT !.at = IF live THEN "post" ELSE "web"], files, scrapes)

\* scrape_via_daemon (52-70): the request is over.  RuntimeError falls
\* through to the standalone scraper (scrape_url 81-85), any other
\* exception leaves scrape_url.
FbPost ==
    /\ ret.at = "post"
    /\ \E o \in DaemonOutcomes :
         LET e == scrape_via_daemon_raises(o) IN
         FbStep([ret EXCEPT !.daemon = o,
                            !.at = IF e = "none" THEN "save"
                                   ELSE IF e = "RuntimeError" THEN "web" ELSE "done",
                            !.result = IF e \in {"none", "RuntimeError"} THEN @ ELSE e],
                files, scrapes)

\* A scrape_via_daemon that raises RuntimeError after it has written.
FbDaemonSaveThenRaisesMut ==
    /\ ret.at = "save"
    /\ LET sv == scrape_via_daemon_save(files, call.title, call.markdown) IN
       FbStep([ret EXCEPT !.at = "web"],
              write_text(files, sv.path, sv.content),
              Append(scrapes, [by |-> "daemon", path |-> sv.path]))

\* scrape_via_daemon (72-111): the directory is made, the name chosen and
\* the file written; mkdir and write_text can fail with OSError.
FbDaemonSave ==
    /\ ret.at = "save"
    /\ LET sv == scrape_via_daemon_save(files, call.title, call.markdown) IN
       \/ FbStep([ret EXCEPT !.at = "done", !.result = "path"],
                 write_text(files, sv.path, sv.content),
                 Append(scrapes, [by |-> "daemon", path |-> sv.path]))
       \/ FbStep([ret EXCEPT !.at = "done", !.result = "OSError"], files, scrapes)

\* scrape_url (88): scrape_web.  The page cannot be fetched or nothing is
\* extracted (RuntimeError), or the file is written, or write_text fails.
FbScrapeWeb ==
    /\ ret.at = "web"
    /\ LET sv == scrape_web_save(files, call.title, call.markdown) IN
       \/ FbStep([ret EXCEPT !.at = "done", !.web = "RuntimeError",
                             !.result = "RuntimeError"], files, scrapes)
       \/ /\ sv.exc = "none"
          /\ \/ FbStep([ret EXCEPT !.at = "done", !.web = "path", !.result = "path"],
                       write_text(files, sv.path, sv.content),
                       Append(scrapes, [by |-> "web", path |-> sv.path]))
             \/ FbStep([ret EXCEPT !.at = "done", !.web = "OSError",
                                   !.result = "OSError"], files, scrapes)

NextFallback == FbUseDaemonIfAvailable \/ FbPost \/ FbDaemonSave \/ FbScrapeWeb

\* ---------------------------------------------------- detect_url_type

MaxUrlLen == 4

\* The pieces URLs are made of, after the scheme "http:"; a piece of more
\* than one character is a text that no other pieces make up.
UrlPieces == {"//", "youtube.com", "example", "@", "/", "?", "#", ".pdf", ".PDF", "["}
Urls == SeqsUpTo(UrlPieces, MaxUrlLen)

\* The first position at or after from that holds one of the pieces in
\* stops, or one past the end.
find(u, from, stops) ==
    IF \E i \in from..Len(u) : u[i] \in stops
    THEN CHOOSE i \in from..Len(u) : u[i] \in stops /\ \A j \in from..(i - 1) : u[j] \notin stops
    ELSE Len(u) + 1

\* urllib.parse.urlparse (detector.py:16): after the scheme, "//" starts
\* the network location, which ends at the first "/", "?" or "#"; the
\* path ends at the first "?" or "#".  A network location with an
\* unmatched bracket raises ValueError.
urlparse(u) ==
    LET has == Len(u) >= 1 /\ u[1] = "//"
        nend == IF has THEN find(u, 2, {"/", "?", "#"}) ELSE 1
        pend == find(u, nend, {"?", "#"})
        netloc == IF has THEN SubSeq(u, 2, nend - 1) ELSE <<>>
    IN  IF \E i \in 1..Len(netloc) : netloc[i] = "["
        THEN [error |-> "ValueError"]
        ELSE [error |-> "none", netloc |-> netloc, path |-> SubSeq(u, nend, pend - 1),
              rest |-> SubSeq(u, pend, Len(u))]

\* str.lower() on the pieces
lower(str_) == [i \in 1..Len(str_) |-> IF str_[i] = ".PDF" THEN ".pdf" ELSE str_[i]]

\* detect_url_type (16-28)
detect_url_type(u) ==
    LET parsed == urlparse(u) IN
    IF parsed.error # "none" THEN parsed.error
    ELSE LET domain == lower(parsed.netloc)
             path == lower(parsed.path)
         IN  IF \E i \in 1..Len(domain) : domain[i] = "youtube.com" THEN "youtube"
             ELSE IF path # <<>> /\ path[Len(path)] = ".pdf" THEN "pdf"
             ELSE "web"

InitDetect ==
    /\ call \in {[fn |-> "detect_url_type", url |-> u] : u \in Urls}
    /\ ret = NoRet

DetectUrlType ==
    /\ ret.at = "-"
    /\ ret' = [at |-> "returned", value |-> detect_url_type(call.url)]
    /\ UNCHANGED <<call, srvVars, cliVars, outVars>>

NextDetect == DetectUrlType

\* --------------------------------------------------- extract_video_id

MaxVideoUrlLen == 7

\* The pieces of the URLs after "https://": the short-link host with its
\* slash, another host with a path, the query delimiters, the text "v=",
\* and two texts that identifiers and names are made of.
VideoUrlPieces == {"youtu.be/", "www.youtube.com/watch", "?", "&", "v=", "ID", "x"}
VideoUrls == SeqsUpTo(VideoUrlPieces, MaxVideoUrlLen)

\* s.split(sep)[-1]: what follows the last sep.
after_last(u, sep) ==
    LET at == {i \in 1..Len(u) : u[i] = sep}
        last == IF at = {} THEN 0 ELSE CHOOSE i \in at : \A j \in at : j <= i
    IN  SubSeq(u, last + 1, Len(u))

\* s.split(sep)[0]: what precedes the first sep.
before_first(u, sep) == SubSeq(u, 1, find(u, 1, {sep}) - 1)

contains(u, piece) == \E i \in 1..Len(u) : u[i] = piece

\* extract_video_id (20-28)
extract_video_id(u) ==
    IF contains(u, "youtu.be/")
    THEN before_first(before_first(after_last(u, "youtu.be/"), "?"), "&")
    ELSE IF contains(u, "v=")
    THEN before_first(after_last(u, "v="), "&")
    ELSE <<"ValueError">>

InitVideoId ==
    /\ call \in {[fn |-> "extract_video_id", url |-> u] : u \in VideoUrls}
    /\ ret = NoRet

ExtractVideoId ==
    /\ ret.at = "-"
    /\ ret' = [at |-> "returned", value |-> extract_video_id(call.url)]
    /\ UNCHANGED <<call, srvVars, cliVars, outVars>>

NextVideoId == ExtractVideoId

\* --------------------------------------------------------- get_config

\* The values a key of the file can have: none (the key is absent), a
\* text, a text that reads as a number, a number, null.
PathValues == {"absent", "str", "int", "null"}
PortValues == {"absent", "int", "numeric str", "str", "null"}

\* ~/.config/scrape_to_md/config.yml: absent, not YAML, or YAML whose top
\* level is null (an empty file), a list, a number or a mapping.
ConfigFiles ==
    {[state |-> st] : st \in {"absent", "unparseable", "null", "list", "int"}}
    \cup {[state |-> "mapping", output_dir |-> o, daemon |-> "absent"] : o \in PathValues}
    \cup {[state |-> "mapping", output_dir |-> o, daemon |-> "not a dict"] : o \in PathValues}
    \cup {[state |-> "mapping", output_dir |-> o, daemon |-> "dict",
           socket_path |-> sp, cdp_port |-> cp] :
              o \in PathValues, sp \in PathValues, cp \in PortValues}

\* config_data (83-90) before the file is read.
Defaults == [output_dir |-> "default", socket_path |-> "default", cdp_port |-> "default"]

\* get_config (93-109): the file is loaded into config_data; any exception
\* in there is caught and reported as a warning.
load_config(file) ==
    IF file.state \in {"absent", "null", "list"}
    THEN [data |-> Defaults, warned |-> FALSE]
    ELSE IF file.state \in {"unparseable", "int"}
    THEN [data |-> Defaults, warned |-> TRUE]
    ELSE LET d1 == IF file.output_dir # "absent"
                   THEN [Defaults EXCEPT !.output_dir = file.output_dir]
                   ELSE Defaults
             d2 == IF file.daemon # "dict" THEN d1
                   ELSE [d1 EXCEPT
                           !.socket_path = IF file.socket_path # "absent"
                                           THEN file.socket_path ELSE @,
                           !.cdp_port = IF file.cdp_port # "absent"
                                        THEN file.cdp_port ELSE @]
         IN  [data |-> d2, warned |-> FALSE]

\* Path(value) and int(value) (112-119), outside the try block.
path_error(v) == IF v \in {"int", "null"} THEN "TypeError" ELSE "none"
int_error(v) ==
    IF v = "str" THEN "ValueError" ELSE IF v = "null" THEN "TypeError" ELSE "none"

\* get_config (68-126), _config_instance being None.
get_config(file) ==
    LET l == load_config(file)
        e == IF path_error(l.data.output_dir) # "none" THEN path_error(l.data.output_dir)
             ELSE IF path_error(l.data.socket_path) # "none"
             THEN path_error(l.data.socket_path)
             ELSE int_error(l.data.cdp_port)
    IN  IF e # "none"
        THEN [at |-> "raised", error |-> e, warned |-> l.warned, instance |-> "None"]
        ELSE [at |-> "returned",
              value |-> [l.data EXCEPT !.cdp_port =
                            IF @ = "numeric str" THEN "int" ELSE @],
              warned |-> l.warned, instance |-> "set"]

InitConfig ==
    /\ call \in {[fn |-> "get_config", file |-> f, calls |-> 0] : f \in ConfigFiles}
    /\ ret = NoRet

\* get_config is called; the second call of a process finds the instance
\* the first one made (78-79), if it made one.
GetConfig ==
    /\ call.calls < 2
    /\ call' = [call EXCEPT !.calls = @ + 1]
    /\ ret' = IF ret.at = "returned" THEN ret ELSE get_config(call.file)
    /\ UNCHANGED <<srvVars, cliVars, outVars>>

NextConfig == GetConfig

\* ------------------------------------------- the metadata of a video

MaxDescriptionLines == 2

\* Durations in seconds, around the minute and the hour.
Durations == {0, 1, 5, 59, 60, 61, 599, 600, 3599, 3600, 3661, 7325, 36000, 86399}

Digit(n) == <<"0", "1", "2", "3", "4", "5", "6", "7", "8", "9">>[n + 1]

RECURSIVE Decimal(_)
Decimal(n) == IF n < 10 THEN <<Digit(n)>> ELSE Decimal(n \div 10) \o <<Digit(n % 10)>>

TwoDigits(n) == <<Digit(n \div 10), Digit(n % 10)>>

\* The duration line of the tool the scraper runs (70-73), a text of
\* characters: hours, minutes and seconds from one hour on, minutes and
\* seconds below.
duration_line(d) ==
    IF d >= 3600
    THEN Decimal(d \div 3600) \o <<":">> \o TwoDigits((d % 3600) \div 60)
             \o <<":">> \o TwoDigits(d % 60)
    ELSE Decimal(d \div 60) \o <<":">> \o TwoDigits(d % 60)

\* The lines of result.stdout.strip().split('\n') (77) for a video of d
\* seconds whose description has n lines: the title, the description, the
\* duration, the upload date.
stdout_lines(d, n) ==
    <<<<"T">>>> \o [i \in 1..n |-> <<"D">>] \o <<duration_line(d)>> \o <<<<"U">>>>

\* scrape_youtube (68-86): the metadata of the video.  The third line of
\* the tool's output is the duration; when the tool fails (check=True) the
\* duration is the empty text.
video_duration(tool, d, n) ==
    IF tool = "fails" THEN <<>>
    ELSE LET lines == stdout_lines(d, n)
         IN  IF Len(lines) > 2 THEN lines[3] ELSE <<>>

InitDuration ==
    /\ call \in [fn : {"scrape_youtube"}, tool : {"prints", "fails"},
                  d : Durations, description : 1..MaxDescriptionLines]
    /\ ret = NoRet

\* scrape_youtube (88-96): the header is written with "duration: " and the
\* text found, unchanged.
WriteDuration ==
    /\ ret.at = "-"
    /\ ret' = [at |-> "written",
               duration |-> video_duration(call.tool, call.d, call.description)]
    /\ UNCHANGED <<call, srvVars, cliVars, outVars>>

NextDuration == WriteDuration

\* ------------------------------------------------- the server's main

\* main (290-322) of chrome_service, from its first statement to the end of
\* the process.  call holds what the previous run left on disk; ret holds
\* where main stands (at), the server's pid file, the socket file, the
\* signal handlers in force, whether the ChromeService was made, whether
\* the server has served, whether stop() has run, and how the process
\* ended.
InitMain ==
    /\ call \in [fn : {"main"}, sock : {"missing", "stale"}, pid : {"missing", "stale"}]
    /\ ret = [at |-> "main", pidfile |-> call.pid, sock |-> call.sock,
              handler |-> "default", scraper |-> FALSE, served |-> FALSE,
              stopped |-> FALSE, how |-> "none"]

MainStep(r) ==
    /\ ret' = r
    /\ UNCHANGED <<call, srvVars, cliVars, outVars>>

\* main (299-303): the pid of the process is written to chrome_service.pid.
MainWritePid ==
    /\ ret.at = "main"
    /\ MainStep([ret EXCEPT !.at = "handlers", !.pidfile = "own"])

\* main (305-312): cleanup_and_exit is registered for SIGTERM and SIGINT.
MainHandlers ==
    /\ ret.at = "handlers"
    /\ MainStep([ret EXCEPT !.at = "unlink_socket", !.handler = "main"])

\* main (314-315): the socket file is removed if it exists.
MainUnlinkSocket ==
    /\ ret.at = "unlink_socket"
    /\ MainStep([ret EXCEPT !.at = "run_app", !.sock = "missing"])

\* main (317-319): web.run_app starts its loop.  Where the event loop can
\* take over signals it replaces the handlers of lines 311-312 with its
\* own, which end the loop gracefully; elsewhere they stay.
RunAppSetup ==
    /\ ret.at = "run_app"
    /\ \E h \in {"main", "library"} :
          MainStep([ret EXCEPT !.at = "on_startup", !.handler = h])

\* on_startup (265-270): the ChromeService is made and started; start()
\* returns or raises.  With the exception run_app ends, after the cleanup
\* hooks or without them.
MainOnStartup ==
    /\ ret.at = "on_startup"
    /\ \/ MainStep([ret EXCEPT !.at = "bind", !.scraper = TRUE])
       \/ \E next \in {"on_cleanup", "finally"} :
             MainStep([ret EXCEPT !.at = next, !.scraper = TRUE,
                                  !.how = "startup_error"])

\* main (319): run_app binds the socket path and serves.
MainBind ==
    /\ ret.at = "bind"
    /\ MainStep([ret EXCEPT !.at = "serving", !.sock = "bound", !.served = TRUE])

\* cleanup_and_exit (306-309) or the loop's own handler: SIGTERM or SIGINT
\* arrives.  cleanup_and_exit removes the pid file and raises SystemExit,
\* which ends the process at line 315 and unwinds run_app inside the try
\* block; the loop's handler ends run_app.  run_app runs the cleanup hooks
\* of a server that was set up; of one still starting, it runs them or not.
MainSignal ==
    /\ ret.at \in {"unlink_socket", "run_app", "on_startup", "bind", "serving"}
    /\ LET r == [ret EXCEPT !.how = "signal",
                            !.pidfile = IF ret.handler = "main" THEN "missing" ELSE @]
       IN  IF ret.at = "unlink_socket" THEN MainStep([r EXCEPT !.at = "exited"])
           ELSE IF ret.at = "run_app" THEN MainStep([r EXCEPT !.at = "finally"])
           ELSE IF ret.served THEN MainStep([r EXCEPT !.at = "on_cleanup"])
           ELSE \E next \in {"on_cleanup", "finally"} : MainStep([r EXCEPT !.at = next])

\* on_cleanup (273-277): if scraper: await scraper.stop().  The server has
\* closed the socket; the file is removed or left.
MainOnCleanup ==
    /\ ret.at = "on_cleanup"
    /\ \E left \in {"missing", "stale"} :
          /\ ret.sock # "bound" => left = ret.sock
          /\ MainStep([ret EXCEPT !.at = "finally", !.stopped = ret.scraper,
                                  !.sock = left])

\* A main whose finally clause leaves the pid file.
MainFinallyKeepsPidMut ==
    /\ ret.at = "finally"
    /\ MainStep([ret EXCEPT !.at = "exited",
                            !.sock = IF @ = "bound" THEN "stale" ELSE @])

\* main (320-322): finally: daemon_pid_file.unlink(missing_ok=True)
MainFinally ==
    /\ ret.at = "finally"
    /\ MainStep([ret EXCEPT !.at = "exited", !.pidfile = "missing",
                            !.sock = IF @ = "bound" THEN "stale" ELSE @])

\* The process is killed: SIGKILL at any time, or a signal before line 311.
MainKilled ==
    /\ ret.at # "exited"
    /\ MainStep([ret EXCEPT !.at = "exited", !.how = "killed",
                            !.sock = IF @ = "bound" THEN "stale" ELSE @])

NextMain ==
    \/ MainWritePid \/ MainHandlers \/ MainUnlinkSocket \/ RunAppSetup
    \/ MainOnStartup \/ MainBind \/ MainSignal \/ MainOnCleanup
    \/ MainFinally \/ MainKilled

\* ================================================ the specifications

IdleSrv ==
    /\ InitSrv
    /\ extUp = FALSE /\ windows = TRUE /\ exeFound = TRUE

\* The server process.
Init == InitSrv /\ IdleCli /\ IdleOut /\ IdleFun
Spec == Init /\ [][Next]_vars

\* The server process while it starts: on_startup's call of start(), up to
\* the moment the server serves or has failed.  The pause of the poll loop
\* (134) always ends.
NextStartup ==
    \/ OnStartup
    \/ Poll(MainTask) \/ PwStart(MainTask) \/ Connect(MainTask) \/ Sleep(MainTask)
    \/ \E p \in Ids : ChromeReady(p) \/ ChromeExit(p) \/ ChromeCrash(p)
    \/ ExtCrash
SpecStartup == Init /\ [][NextStartup]_vars /\ WF_vars(Poll(MainTask))

\* The server process started again after a run that ended without
\* on_cleanup (the process was killed): the browser that run launched is
\* detached (launch_chrome, 62-67) and its pid is still in
\* chrome_browser.pid, a file that no startup code removes.  Either that
\* browser still listens, or it is gone and a browser the user started
\* listens in its place.
LeftPid == MaxRequests + 2
InitRestart ==
    /\ playwright = 0 /\ browser = 0
    /\ drivers = {} /\ conns = {}
    /\ connDrv = [c \in Ids |-> 0]
    /\ \/ /\ pidFile = LeftPid
          /\ procs = [p \in Ids |-> IF p = LeftPid THEN "up" ELSE "none"]
          /\ extUp = FALSE
       \/ /\ pidFile = Gone
          /\ procs = [p \in Ids |-> "none"]
          /\ extUp = TRUE
    /\ windows \in BOOLEAN
    /\ exeFound \in BOOLEAN
    /\ phase = "boot"
    /\ scraper = 0
    /\ pc = [t \in Tasks |-> IF t = MainTask THEN "boot" ELSE "idle"]
    /\ loc = [t \in Tasks |-> Loc0]
    /\ hist = [t \in Tasks |-> Hist0]
    /\ resp = [t \in ReqTasks |-> NoResp]
    /\ cnt = [requests |-> 0, env |-> 0, constructed |-> 0, cleanups |-> 0,
              started |-> 0]
InitRestartSpec == InitRestart /\ IdleCli /\ IdleOut /\ IdleFun
SpecRestart == InitRestartSpec /\ [][Next]_vars

\* The dispatcher processes.
InitCliSpec == IdleSrv /\ InitCli /\ IdleOut /\ IdleFun
SpecCli == InitCliSpec /\ [][NextCli]_vars

\* The metadata header, written and read back.
InitHeaderSpec == IdleSrv /\ IdleCli /\ IdleOut /\ InitHeader
SpecHeader == InitHeaderSpec /\ [][NextHeader]_vars

\* The classification of a URL.
InitDetectSpec == IdleSrv /\ IdleCli /\ IdleOut /\ InitDetect
SpecDetect == InitDetectSpec /\ [][NextDetect]_vars

\* The identifier of a video, from its URL.
InitVideoIdSpec == IdleSrv /\ IdleCli /\ IdleOut /\ InitVideoId
SpecVideoId == InitVideoIdSpec /\ [][NextVideoId]_vars

\* The configuration, loaded.
InitConfigSpec == IdleSrv /\ IdleCli /\ IdleOut /\ InitConfig
SpecConfig == InitConfigSpec /\ [][NextConfig]_vars

\* The metadata header of a video.
InitDurationSpec == IdleSrv /\ IdleCli /\ IdleOut /\ InitDuration
SpecDuration == InitDurationSpec /\ [][NextDuration]_vars

\* The server's main, from start to end of the process.
InitMainSpec == IdleSrv /\ IdleCli /\ IdleOut /\ InitMain
SpecMain == InitMainSpec /\ [][NextMain]_vars

\* Two scrapes saving into one output directory at the same time.
InitWritersSpec == IdleSrv /\ IdleCli /\ InitWriters /\ IdleFun
SpecWriters == InitWritersSpec /\ [][NextWriters]_vars

\* The standalone saver and the daemon client's saver on the same input.
InitSaveSpec == IdleSrv /\ IdleCli /\ IdleOut /\ InitSave
SpecSave == InitSaveSpec /\ [][NextSave]_vars

\* Dispatchers of web URLs and the servers they spawn.
InitSpawnSpec == IdleSrv /\ IdleOut /\ InitSpawn
SpecSpawn == InitSpawnSpec /\ [][NextSpawn]_vars

\* One scrape_url call for a web URL, daemon path and fallback.
InitFallbackSpec == IdleSrv /\ IdleCli /\ InitFallback
SpecFallback == InitFallbackSpec /\ [][NextFallback]_vars

\* Scrapes into one output directory, one after the other.
InitOutSpec == IdleSrv /\ IdleCli /\ InitOut /\ IdleFun
SpecOut == InitOutSpec /\ [][NextOut]_vars

\* ======================================================== the claims

Responded(t) == pc[t] = "respond"
InStop(t) == pc[t] \in {"close", "pw_stop"}
InStart(t) == pc[t] \in {"poll", "pw_start", "connect", "sleep"}

\* The errors start() can raise.
StartErrors == {"NoChromeExecutable", "ChromeStartTimeout", "DriverStartError",
                "ConnectOther", "ConnectFailed"}

\* C1: once ensure_connected has succeeded, scrape never propagates an
\* exception: the caller receives a result record whatever fails while the
\* page is opened, used or closed.
C1_ScrapeNeverRaises ==
    \A t \in ReqTasks :
        (Responded(t) /\ hist[t].ensured = "ok") =>
            (hist[t].exc = "none" /\ resp[t].status = 200)

C3_ZeroContextsNeverReady ==
    \A t \in ReqTasks :
        /\ hist[t].ensured = "ok" => hist[t].ready = "yes"
        /\ pc[t] \in {"new_page", "page", "page_close"} =>
               (hist[t].ensured = "ok" /\ hist[t].ready = "yes")

C3_Witness ==
    \E t, u \in ReqTasks :
        /\ t # u
        /\ pc[t] = "new_page" /\ hist[t].started
        /\ InStop(u) \/ InStart(u)

\* C6: POST /scrape with a well-formed body always answers with the success
\* status, also when the session manager fails internally (a failed
\* reconnect, a failed browser start).
C6_WellFormedAlways200 ==
    \A t \in ReqTasks :
        (Responded(t) /\ hist[t].exc # "BadRequest") => resp[t].status = 200

\* C7: in every result scrape returns exactly one of markdown and error
\* carries a payload: a success has error null and a non-empty markdown, a
\* failure has a non-empty error and empty title and markdown.
C7_ExactlyOnePayload ==
    \A t \in ReqTasks :
        (Responded(t) /\ resp[t].status = 200) =>
            LET r == resp[t].result IN
            \/ r.error = "null" /\ r.markdown # ""
            \/ r.error \notin {"null", ""} /\ r.title = "" /\ r.markdown = ""

\* C8: at most one session is active: whenever the server is serving and no
\* request is in flight, the only open connection and the only running
\* driver are the ones the manager references.
C8_OneSession ==
    (phase = "serving" /\ \A t \in ReqTasks : pc[t] = "idle") =>
        (conns \subseteq {browser} /\ drivers \subseteq {playwright})

\* C9 as stated: one ChromeService is constructed, its start() has completed
\* before a request is accepted, and stop() runs once only, at shutdown.
C9_StopOnlyAtShutdown ==
    /\ cnt.constructed <= 1
    /\ cnt.requests > 0 => cnt.started = 1
    /\ cnt.cleanups <= 1
    /\ \A t \in Tasks : InStop(t) => phase = "cleanup"

\* C9 as amended: one ChromeService is constructed, its start() has completed
\* before a request is accepted, on_cleanup runs stop() exactly once at
\* shutdown, and besides that stop() runs in every reconnect of
\* ensure_connected, while the server is serving.
C9_StopAtShutdownAndReconnect ==
    /\ cnt.constructed <= 1
    /\ phase # "boot" => cnt.constructed = 1 /\ scraper = 1
    /\ (cnt.requests > 0 \/ phase = "serving") => cnt.started = 1
    /\ cnt.cleanups <= 1
    /\ (phase = "exited" /\ cnt.started = 1) => cnt.cleanups = 1
    /\ InStop(MainTask) => (phase = "cleanup" /\ cnt.cleanups = 1)
    /\ \A t \in ReqTasks :
           InStop(t) => (phase = "serving" /\ hist[t].probe \notin {"none", "healthy"})

C9_Witness ==
    /\ phase = "exited" /\ cnt.started = 1 /\ cnt.cleanups = 1
    /\ cnt.requests = MaxRequests

\* ---------------------------------------------------------------- C4
Finished(d) == dpc[d] \in {"done", "exited"} /\ dh[d].result # "KeyboardInterrupt"
DaemonFailed(d) == dh[d].daemon \notin {"none", "ok"}

\* C4: for a web URL, whenever the request to the daemon has failed
\* (connection failure, status other than 200, error field, timeout), the
\* finished scrape_url call has invoked the standalone scraper and its
\* result is the standalone scraper's.
C4_DaemonFailureFallsBack ==
    \A d \in Dispatchers :
        (Finished(d) /\ DaemonFailed(d)) =>
            (dh[d].web # "none" /\ dh[d].result = dh[d].web)

\* ---------------------------------------------------------------- C5
Returned(d) == dh[d].ret # "none"

\* What holds of C5 whichever way "the check" and the return value are
\* read: at most one spawn per call and only for a web URL, at most 50
\* rounds of waiting, the request goes to the daemon only if the socket is
\* live at the last check, and otherwise the standalone scraper runs.
C5_Common(d) ==
    /\ dh[d].spawned <= 1
    /\ (dh[d].spawned = 1 => dh[d].url_type = "web")
    /\ dpolls[d] < DaemonStartPolls
    /\ (dpolls[d] > 0 => dpc[d] = "poll")
    /\ ((dpc[d] = "daemon" \/ dh[d].daemon # "none") => dh[d].chk3 = "live")
    /\ (dh[d].chk3 = "dead" =>
            /\ dpc[d] \in {"web", "done", "exited"}
            /\ dh[d].daemon = "none"
            /\ (Finished(d) => dh[d].web # "none"))

LastScrape == scrapes[Len(scrapes)]

\* How many of the scrapes made so far produced the slug of the last one.
SameSlug == Cardinality({i \in 1..Len(scrapes) : scrapes[i].slug = LastScrape.slug})

FreshAndUntouched ==
    /\ LastScrape.path \notin DOMAIN before
    /\ DOMAIN files = DOMAIN before \cup {LastScrape.path}
    /\ \A f \in DOMAIN before : files[f] = before[f]
    /\ files[LastScrape.path] = LastScrape.title

\* The name tried in round k of the loop: the slug, then slug_1, slug_2, ...
Candidate(slug, k) == IF k = 0 THEN md(slug) ELSE md(slug \o <<"_">> \o str(k))

\* C10 as stated: every scrape writes to a path that did not exist and
\* leaves the existing files as they were; the n-th scrape producing a
\* slug is written to slug.md for n = 1 and to slug_(n-1).md after that.
C10_NthGetsSuffix ==
    scrapes # <<>> =>
        /\ FreshAndUntouched
        /\ LastScrape.path = Candidate(LastScrape.slug, SameSlug - 1)

\* C10, amended: every scrape writes to a path that did not exist and
\* leaves the existing files as they were; the path is the first of
\* slug.md, slug_1.md, slug_2.md, ... that did not exist, whichever scrapes
\* created the earlier ones.
C10_FirstFreeSuffix ==
    scrapes # <<>> =>
        /\ FreshAndUntouched
        /\ \E k \in 0..Len(scrapes) :
              /\ LastScrape.path = Candidate(LastScrape.slug, k)
              /\ \A j \in 0..(k - 1) : Candidate(LastScrape.slug, j) \in DOMAIN before

\* The third scrape of one title: two files of the slug were there, the
\* third is written beside them.
C10_Witness ==
    /\ Len(scrapes) = 3
    /\ \A i \in 1..3 : scrapes[i].title = <<"a">>
    /\ LastScrape.path = <<"a", "_", "2", ".md">>
    /\ DOMAIN before = {<<"a", ".md">>, <<"a", "_", "1", ".md">>}

\* --------------------------------------------------------------- C11
HeaderParsed == ret.at = "parsed"

\* C11: whatever the title (colons, quotes, line breaks), the header the
\* scraper wrote, when parsed, gives the title back.
C11_HeaderRoundTrip ==
    (HeaderParsed /\ \E i \in 1..Len(call.title) : call.title[i] \in {":", "\"", "\n"})
        => ret.parsed = call.title

\* --------------------------------------------------------------- C12
\* C12: once scrape_pdf has returned or raised (success, download failure,
\* conversion failure), the scratch file it created does not exist.
C12_ScratchRemoved ==
    \A d \in Dispatchers :
        (Finished(d) /\ dh[d].pdf # "none") => dh[d].scratch = "removed"

\* --------------------------------------------------------------- C13
\* The host of a URL: what follows "//" up to the first "/", "?" or "#",
\* without the user information that ends at the last "@".
UrlHost(u) ==
    LET nend == find(u, 2, {"/", "?", "#"})
        netloc == IF Len(u) >= 1 /\ u[1] = "//" THEN SubSeq(u, 2, nend - 1) ELSE <<>>
        ats == {i \in 1..Len(netloc) : netloc[i] = "@"}
        last == IF ats = {} THEN 0 ELSE CHOOSE i \in ats : \A j \in ats : j <= i
    IN  SubSeq(netloc, last + 1, Len(netloc))

\* The path of a URL: from the end of the network location to the first
\* "?" or "#".
UrlPath(u) ==
    LET nend == IF Len(u) >= 1 /\ u[1] = "//" THEN find(u, 2, {"/", "?", "#"}) ELSE 1
    IN  SubSeq(u, nend, find(u, nend, {"?", "#"}) - 1)

\* The reference rule, on host and path only.
ReferenceUrlType(u) ==
    IF \E i \in 1..Len(UrlHost(u)) : UrlHost(u)[i] = "youtube.com" THEN "youtube"
    ELSE IF UrlPath(u) # <<>> /\ UrlPath(u)[Len(UrlPath(u))] \in {".pdf", ".PDF"} THEN "pdf"
    ELSE "web"

\* C13: detect_url_type returns for every URL, and what it returns is the
\* reference rule's class: youtube if the host holds the marker, else pdf
\* if the path ends in .pdf in any case, else web.
C13_DetectIsReferenceRule ==
    ret.at = "returned" => ret.value = ReferenceUrlType(call.url)

\* --------------------------------------------------------------- C14
IsIdentifier(id) == id # <<>> /\ \A i \in 1..Len(id) : id[i] \in {"ID", "x"}

\* The short-link shape: the short-link host, the identifier, and then
\* nothing or a query.
ShortLinkId(u) == before_first(Tail(u), "?")
IsShortLink(u) == u # <<>> /\ Head(u) = "youtu.be/" /\ IsIdentifier(ShortLinkId(u))

\* The canonical shape: a host and path, a query, and in the query a
\* parameter v whose value is an identifier.  The parameter at position i
\* starts right after "?" or "&" and ends at the next "&".
VParamAt(u, i) ==
    /\ i > 1 /\ u[i] = "v=" /\ u[i - 1] \in {"?", "&"}
    /\ find(u, 1, {"?"}) < i
    /\ IsIdentifier(SubSeq(u, i + 1, find(u, i + 1, {"&"}) - 1))
IsCanonical(u) ==
    /\ u # <<>> /\ Head(u) = "www.youtube.com/watch" /\ ~contains(u, "youtu.be/")
    /\ \E i \in 1..Len(u) : VParamAt(u, i)
CanonicalId(u) ==
    LET i == CHOOSE k \in 1..Len(u) : VParamAt(u, k) /\ \A j \in 1..(k - 1) : ~VParamAt(u, j)
    IN  SubSeq(u, i + 1, find(u, i + 1, {"&"}) - 1)

\* C14: extract_video_id gives the identifier of every short-link URL and
\* of every canonical URL with a v parameter, whatever the other
\* parameters, and raises for every URL of neither shape.
C14_VideoIdOfBothShapes ==
    ret.at = "returned" =>
        ret.value = IF IsShortLink(call.url) THEN ShortLinkId(call.url)
                    ELSE IF IsCanonical(call.url) THEN CanonicalId(call.url)
                    ELSE <<"ValueError">>

\* --------------------------------------------------------------- C15
\* The file is there and malformed: it is not YAML, or a value in it has
\* the wrong type (a path that is no text, a port that is no number).
Malformed(file) ==
    \/ file.state \in {"unparseable", "int"}
    \/ /\ file.state = "mapping"
       /\ \/ file.output_dir \in {"int", "null"}
          \/ /\ file.daemon = "dict"
             /\ \/ file.socket_path \in {"int", "null"}
                \/ file.cdp_port \in {"str", "null"}

\* C15: get_config never raises; without a file it returns the defaults,
\* with a malformed file it warns and returns exactly the defaults.
C15_ConfigNeverRaises ==
    (call.fn = "get_config" /\ ret.at # "-") =>
        /\ ret.at = "returned"
        /\ (call.file.state = "absent" => ret.value = Defaults)
        /\ (Malformed(call.file) => (ret.warned /\ ret.value = Defaults))

\* --------------------------------------------------------------- C16
Exited(d) == dpc[d] = "exited"

\* The failures of the error taxonomy as scrape_url raises them: the
\* RuntimeError of the scrapers, and the daemon that does not answer.
TaxonomyFailures == {"RuntimeError", "TimeoutError"}

\* The exit codes of C16: 0 exactly when scrape_url returned a path, 130 on
\* interrupt, 1 on every other failure; and no failure leaves without a
\* message.
C16_ExitCodes(d) ==
    /\ (dh[d].exit = 0 <=> dh[d].result = "path")
    /\ (dh[d].exit = 130 <=> dh[d].result = "KeyboardInterrupt")
    /\ (dh[d].result \notin {"path", "KeyboardInterrupt"} => dh[d].exit = 1)
    /\ dh[d].msg # "none"

\* C16: the exit code is 0 exactly when scrape_url returned a path, 130 on
\* interrupt and 1 on every other failure, and every failure of the error
\* taxonomy is reported as a message "Error: ...".
C16_ExitCodeAndErrorLine ==
    \A d \in Dispatchers :
        Exited(d) =>
            /\ C16_ExitCodes(d)
            /\ (dh[d].result \in TaxonomyFailures => dh[d].msg = "Error: ")

\* (The exit codes alone, for every process that has ended.)
C16_ExitCodesOnly == \A d \in Dispatchers : Exited(d) => C16_ExitCodes(d)

\* --------------------------------------------------------------- C17
\* d seconds as H:MM:SS from one hour on and as M:SS below, minutes and
\* seconds on two digits where they do not lead.
HMMSS(d) ==
    LET h == d \div 3600
        m == (d % 3600) \div 60
        sec == d % 60
    IN  IF d >= 3600
        THEN Decimal(h) \o <<":">> \o TwoDigits(m) \o <<":">> \o TwoDigits(sec)
        ELSE Decimal(d \div 60) \o <<":">> \o TwoDigits(sec)

\* C17: the duration written to the header of a video of d seconds is d
\* formatted as H:MM:SS when d >= 3600 and as M:SS otherwise.
C17_DurationFormatted ==
    ret.at = "written" => ret.duration = HMMSS(call.d)

\* (The same, for the runs where the tool printed its four fields with a
\* description of one line.)
C17_DurationIsThirdLine ==
    (ret.at = "written" /\ call.tool = "prints" /\ call.description = 1)
        => ret.duration = HMMSS(call.d)

\* --------------------------------------------------------------- C18
\* The session of the manager: its driver and connection, the pid file, and
\* the drivers, connections and browser processes there are.
session == <<playwright, browser, pidFile, drivers, conns, connDrv, procs>>

Reconnects == {"absent", "closed", "zero"}

\* Where a request's call of ensure_connected stands: a healthy probe is
\* followed by no stop and no start; stop() runs before it has run and before
\* start(), start() runs after stop() has run through and before it has
\* returned; and a call that found one of the three cases has, when it is
\* over, run stop() through and then start(), which returned or raised.
C18_StopThenStartOnce ==
    \A t \in ReqTasks :
        /\ hist[t].probe = "healthy" =>
               (~hist[t].stopped /\ ~hist[t].started /\ ~InStop(t) /\ ~InStart(t)
                /\ hist[t].ensured = "ok")
        /\ InStop(t) => (hist[t].probe \notin {"none", "healthy"}
                         /\ ~hist[t].stopped /\ ~hist[t].started)
        /\ InStart(t) => (hist[t].stopped /\ ~hist[t].started
                          /\ hist[t].ensured = "none")
        /\ hist[t].started => hist[t].stopped
        /\ (hist[t].probe \in Reconnects /\ ~InStop(t) /\ ~InStart(t)) =>
               /\ hist[t].stopped
               /\ (hist[t].started \/ hist[t].ensured \in StartErrors)
               /\ hist[t].ensured \in StartErrors => ~hist[t].started

\* The step in which a request's probe finds the session healthy changes
\* nothing of the session.
C18_HealthyProbeStep ==
    \A t \in ReqTasks :
        (pc[t] = "idle" /\ hist'[t].probe = "healthy") => UNCHANGED session

\* C18: ensure_connected is an idempotent health check.  With a connection
\* that exists, is connected and has a browsing context it performs no
\* stop, no start and changes no session state; with no connection, a
\* closed connection or zero contexts it performs stop() in full and then
\* start(), in that order, once.
C18_IdempotentHealthCheck ==
    [](C18_StopThenStartOnce) /\ [][C18_HealthyProbeStep]_vars

\* One request has reconnected a closed connection, stop() then start(),
\* and the next one finds the session healthy and is at its page.
C18_Witness ==
    \E t, u \in ReqTasks :
        /\ Responded(u) /\ hist[u].probe = "closed"
        /\ hist[u].stopped /\ hist[u].started /\ hist[u].ensured = "ok"
        /\ pc[t] = "page" /\ hist[t].probe = "healthy"
        /\ ~hist[t].stopped /\ ~hist[t].started

\* --------------------------------------------------------------- C19
\* The step in which the start() of task t returns normally, or raises e.
StartReturns(t) ==
    /\ InStart(t)
    /\ IF t = MainTask THEN pc'[t] = "serving" ELSE hist'[t].started
StartRaises(t, e) ==
    /\ InStart(t) /\ ~InStart(t)'
    /\ hist'[t].exc = e
    /\ t \in ReqTasks => hist'[t].ensured = e
StartEnds(t) ==
    StartReturns(t) \/ \E e \in StartErrors : StartRaises(t, e)

\* The attempts of a call have the indices 0, 1, 2; the pause before a
\* retry is made after the first two only.
C19_AttemptsBounded ==
    \A t \in Tasks :
        /\ InStart(t) => loc[t].attempt \in 0..(max_retries - 1)
        /\ pc[t] = "sleep" => loc[t].attempt < max_retries - 1

C19_StartStep ==
    \A t \in Tasks :
        \* the next attempt has the next index
        /\ (pc[t] = "sleep" /\ pc'[t] = "connect") =>
               loc'[t].attempt = loc[t].attempt + 1
        \* start() leaves its positions only by returning or raising
        /\ (InStart(t) /\ ~InStart(t)') => StartEnds(t)
        \* it returns from a connection attempt, with the connection of
        \* that attempt stored and open
        /\ StartReturns(t) =>
               (pc[t] = "connect" /\ browser' \in conns' /\ browser' \notin conns)
        \* an error of another class: raised from the attempt, and nothing is
        \* cleaned up or launched
        /\ StartRaises(t, "ConnectOther") =>
               (pc[t] = "connect" /\ UNCHANGED <<procs, pidFile>>)
        \* the error of the refused attempts is raised after the third only
        /\ StartRaises(t, "ConnectFailed") => loc[t].attempt = max_retries - 1
        \* the third attempt: it succeeds, or start() raises, at once or
        \* after waiting for the browser it launched
        /\ (pc[t] = "connect" /\ loc[t].attempt = max_retries - 1
               /\ pc'[t] # "connect") =>
               (StartEnds(t) \/ (pc'[t] = "poll" /\ loc'[t].after = "retry"
                                 /\ loc'[t].attempt = loc[t].attempt))
        /\ (pc[t] = "poll" /\ loc[t].after = "retry"
               /\ loc[t].attempt = max_retries - 1 /\ pc'[t] # "poll") =>
               (StartRaises(t, "ConnectFailed") \/ StartRaises(t, "ChromeStartTimeout"))

\* C19: one call of start() makes at most 3 connection attempts; it returns
\* normally only with an open connection stored in the manager; an error
\* that is not of the connection-refused class makes it fail from that
\* attempt with no cleanup, relaunch or retry; three refused attempts make
\* it fail with an error.
C19_StartAttempts ==
    [](C19_AttemptsBounded) /\ [][C19_StartStep]_vars

\* A start() that has failed after three refused attempts.
C19_Witness ==
    \E t \in Tasks : ~InStart(t) /\ hist[t].exc = "ConnectFailed"

\* (A start() that has failed on an error of another class.)
C19_WitnessOther ==
    \E t \in Tasks : ~InStart(t) /\ hist[t].exc = "ConnectOther"

\* --------------------------------------------------------------- C20
\* The step of task t in which a connection attempt fails with an error of
\* the connection-refused class and start() goes on towards its next
\* attempt.
RefusedAndRetrying(t) ==
    pc[t] = "connect" /\ pc'[t] \in {"poll", "sleep"}

\* A browser process is launched in the step.
Launched == \E p \in Ids : procs[p] = "none" /\ procs'[p] = "booting"

\* No browser that was there before the step serves the port after it.
CleanedUp ==
    /\ ~extUp'
    /\ \A p \in Ids : procs[p] # "none" => procs'[p] \notin {"booting", "up", "term"}

C20_RetryStep ==
    \A t \in Tasks :
        /\ RefusedAndRetrying(t) => (CleanedUp /\ Launched /\ pc'[t] = "poll")
        /\ (pc[t] = "poll" /\ pc'[t] = "sleep") => is_chrome_running(Cur)

\* C20: between a connection attempt that failed with an error of the
\* connection-refused class and the next attempt of the same start() call,
\* the browser process is cleaned up, a new browser process is launched,
\* and it is observed reachable.
C20_CleanupAndRelaunch == [][C20_RetryStep]_vars

\* (What holds: the next attempt is made only after the port was observed
\* reachable.)
C20_ObservedReachable ==
    [][\A t \in Tasks :
          (pc'[t] = "sleep" /\ pc[t] # "sleep") =>
              (pc[t] \in {"connect", "poll"} /\ is_chrome_running(Cur)')]_vars

\* --------------------------------------------------------------- C21
\* The health checks of the poll loop are counted by loc.polls: a task in
\* the loop has made fewer than the budget.
C21_ChecksBounded ==
    \A t \in Tasks : pc[t] = "poll" => loc[t].polls \in 0..(StartPolls - 1)

C21_EnsureStep ==
    /\ Launched => ~is_chrome_running(Cur)
    /\ \A t \in Tasks :
          \* a round of the loop: the check succeeds and the loop is left, or
          \* it fails and is counted, or it was the last one and start() raises
          /\ (pc[t] = "poll" /\ (pc'[t] # "poll" \/ loc'[t] # loc[t])) =>
                IF is_chrome_running(Cur)
                THEN pc'[t] # "poll" /\ hist'[t].exc # "ChromeStartTimeout"
                ELSE IF loc[t].polls < StartPolls - 1
                THEN pc'[t] = "poll" /\ loc'[t].polls = loc[t].polls + 1
                ELSE pc'[t] # "poll" /\ hist'[t].exc = "ChromeStartTimeout"
          \* _ensure_chrome_running returns to start(): the port was
          \* reachable at the check made in that step
          /\ (pc[t] # pc'[t] /\ pc'[t] \in {"pw_start", "sleep"}) =>
                is_chrome_running(Cur)

\* C21: _ensure_chrome_running launches a browser only when the port is
\* unreachable; after a launch it makes at most StartPolls health checks
\* (30 in the code), returns as soon as one succeeds and raises when all
\* fail; it always terminates, and returns normally only after the port
\* was observed reachable.
C21_EnsureChromeRunning ==
    /\ [](C21_ChecksBounded)
    /\ [][C21_EnsureStep]_vars
    /\ (pc[MainTask] = "poll") ~> (pc[MainTask] # "poll")

\* The launched browser never came up: all health checks failed and
\* start() raised.
C21_Witness ==
    /\ phase = "failed" /\ hist[MainTask].exc = "ChromeStartTimeout"
    /\ \E p \in Ids : procs[p] = "booting"

\* (The part of C21 that is no liveness, for the whole server.)
C21_Safety == [](C21_ChecksBounded) /\ [][C21_EnsureStep]_vars

\* --------------------------------------------------------------- C22
\* on_cleanup has run stop(), whose last step is cleanup_chrome, and the
\* process has ended.
CleanedUpAndExited == phase = "exited" /\ cnt.cleanups = 1

\* C22: cleanup_chrome never raises, and a pid file that existed when it
\* was called no longer exists when it returns, whether or not the recorded
\* process was still alive.  Observed at the end of the server, after the
\* cleanup_chrome that ends stop(): no pid file is left.
C22_PidFileRemoved == CleanedUpAndExited => pidFile = 0

\* (The same for a pid file whose process is alive when cleanup_chrome is
\* called: a pid file that is left names a process that is gone.)
C22_PidFileOfLiveProcessRemoved == CleanedUpAndExited => pidFile \in {0, Gone}

\* --------------------------------------------------------------- C23
\* The step in which the stop() of task t returns: it comes after
\* cleanup_chrome, and no exception leaves stop().  on_cleanup ends with no
\* live browser recorded in the pid file; ensure_connected goes on with
\* start(), and an exception of the call is one of start().
StopReturns(t) ==
    IF t = MainTask
    THEN /\ phase' = "exited" /\ pc'[t] = "exited"
         /\ pidFile' \in {0, Gone}
         /\ hist'[t].exc = hist[t].exc
    ELSE /\ hist'[t].stopped
         /\ InStart(t)' \/ hist'[t].ensured \in StartErrors

C23_StopStep ==
    \A t \in Tasks :
        /\ (pc[t] = "close" /\ pc'[t] # "close") =>
               (pc'[t] = "pw_stop" \/ StopReturns(t))
        /\ (pc[t] = "pw_stop" /\ pc'[t] # "pw_stop") => StopReturns(t)

\* C23: stop() never propagates an exception and always reaches the
\* cleanup of the browser process, whether closing the connection and
\* stopping the driver succeeded, failed, or were skipped.
C23_StopReachesCleanup ==
    /\ [](CleanedUpAndExited => (pc[MainTask] = "exited" /\ pidFile \in {0, Gone}))
    /\ [](\A t \in ReqTasks : InStart(t) => hist[t].stopped)
    /\ [][C23_StopStep]_vars

\* The server was shut down after serving, and the cleanup at the end of
\* stop() has sent the signal to the browser it launched.
C23_Witness ==
    /\ CleanedUpAndExited /\ cnt.started = 1
    /\ \E p \in Ids : procs[p] = "term"

\* --------------------------------------------------------------- C24
\* The pid of the browser that was running before this manager was made is
\* not given to a browser this manager launches.
LeftPidNotReused == [][procs[LeftPid] = "none" => procs'[LeftPid] = "none"]_vars

\* C24: stop() and cleanup_chrome send the termination signal only to a
\* browser process this manager launched: the browser that was running
\* when the manager was made, and to which it attached, is never sent the
\* signal.
C24_OnlyLaunchedSignalled == procs[LeftPid] # "term"

\* (A browser with no pid file is never signalled: it stops listening only
\* by going away on its own.)
C24_ExternalNeverSignalled == [][(extUp /\ ~extUp') => cnt'.env = cnt.env + 1]_vars

\* --------------------------------------------------------------- C25
\* The manager holds no connection handle, or one that is connected.
HandleOnlyWhileConnected == browser = 0 \/ browser \in conns

\* C25: the connection handle is present only while connected: after
\* stop() (while the start() that follows has stored no connection, and at
\* the end of the server) and after a start() that failed, the manager
\* holds no connection handle.
C25_NoHandleAfterStop ==
    /\ CleanedUpAndExited => browser = 0
    /\ \A t \in ReqTasks :
          (InStart(t) \/ (Responded(t) /\ hist[t].ensured \in StartErrors)) =>
              HandleOnlyWhileConnected

\* (The handle between construction and the first connection, and stop()
\* entered only on a handle that exists.)
C25_NoHandleBeforeStart ==
    /\ phase \in {"boot", "starting", "failed"} => browser = 0
    /\ (cnt.started = 1 /\ phase = "serving") => browser # 0

\* --------------------------------------------------------------- C26
\* The scrape call of task t has opened a page and is over, and the
\* page.close() of its finally clause raised: the call did not close its
\* page.
PageCloseFailed(t) == Responded(t) /\ hist[t].exc = "PageCloseError"

\* C26: every page that scrape opens is closed by the time the call ends,
\* on the success path and on every failure path.  The browser the manager
\* attached to is still up (extUp), so that a page that was not closed is
\* still open in it.
C26_EveryPageClosed ==
    \A t \in ReqTasks : extUp => ~PageCloseFailed(t)

\* --------------------------------------------------------------- C27
\* The probes that find the session dead.
Dead == {"closed", "zero", "raised"}

\* The step in which the ensure_connected of task t fails with e.
EnsureFails(t, e) == hist[t].ensured = "none" /\ hist'[t].ensured = e

C27_Outcome ==
    \A t \in ReqTasks :
        (Responded(t) /\ hist[t].probe \in Dead) =>
            /\ hist[t].stopped
            /\ hist[t].ensured \in {"ok", "NoWindows"} \cup StartErrors
            /\ hist[t].ensured = "ok" => (hist[t].started /\ hist[t].ready = "yes")

\* A call that fails did so for want of a window, or in start(): then the
\* browser was unreachable or had no window, or the failing step was a
\* failure of the environment.
C27_FailsOnlyUnreachable ==
    \A t \in ReqTasks :
        /\ EnsureFails(t, "NoWindows") => ~windows'
        /\ \A e \in StartErrors :
              EnsureFails(t, e) =>
                  (~is_chrome_running(Cur) \/ ~windows \/ cnt'.env > cnt.env)

\* C27: after the connection is found dead or a previous start() failed,
\* the next scrape call tears the session down and recreates it, and if the
\* browser can be reached and has a window the call gets a usable session.
C27_Recovers == [](C27_Outcome) /\ [][C27_FailsOnlyUnreachable]_vars

\* (What holds: the only other ways for the call to fail are that the
\* driver its connection attempt went through has been stopped under it, and
\* the error of the third refused attempt, raised after the relaunch.)
C27_RecoversUnlessDriverStopped ==
    /\ [](C27_Outcome)
    /\ [][\A t \in ReqTasks :
             /\ EnsureFails(t, "NoWindows") => ~windows'
             /\ \A e \in StartErrors :
                   EnsureFails(t, e) =>
                       \/ ~is_chrome_running(Cur) \/ ~windows \/ cnt'.env > cnt.env
                       \/ (pc[t] = "connect" /\ loc[t].obj \notin drivers)
                       \/ (pc[t] = "poll" /\ e = "ConnectFailed")]_vars

Reconnecting(u) == InStop(u) \/ InStart(u)
UsesSession(t) == pc[t] \in {"new_page", "page", "page_close"}

\* A request can be handled: the server serves, the handler's task is free
\* and the requests of the run are not used up.
Admissible(t) ==
    /\ phase = "serving"
    /\ pc[t] = "idle"
    /\ \A u \in ReqTasks : Before(u, t) => pc[u] # "idle"
    /\ cnt.requests < MaxRequests

\* C29: there is no mutual exclusion around reconnection: a request that
\* arrives runs its health check at once, wherever the other request stands,
\* so one request checks or uses the session while the other is between the
\* start of stop() and the completion of start().
C29_NoMutualExclusion ==
    \A t \in ReqTasks : Admissible(t) => ENABLED Request(t)

\* One request is between stop() and the end of start() while the other has
\* a page open on the session.
C29_Witness ==
    \E t, u \in ReqTasks :
        t # u /\ Reconnecting(u) /\ UsesSession(t)

\* Both requests are inside their reconnection: the health check of the
\* later one ran while the earlier one was between stop() and start().
C29_WitnessChecked ==
    \E t, u \in ReqTasks :
        /\ t # u /\ Reconnecting(u) /\ Reconnecting(t)
        /\ hist[t].probe \notin {"none", "healthy"}
        /\ hist[u].probe \notin {"none", "healthy"}

\* A request waits to be admitted while the other one reconnects.
C29_AdmissibleDuringReconnect ==
    \E t, u \in ReqTasks : t # u /\ Reconnecting(u) /\ Admissible(t)

\* --------------------------------------------------------------- C30
BothSaved == \A w \in Writers : scrapes[w].at = "done"
WritersSameSlug == scrapes[1].slug = scrapes[2].slug

\* C30: when two scrapes with the same slug save into one directory at the
\* same time, neither overwrites the file of the other: both results end
\* up in distinct files.
C30_DistinctFiles ==
    (BothSaved /\ WritersSameSlug) =>
        /\ scrapes[1].path # scrapes[2].path
        /\ \A w \in Writers :
              /\ scrapes[w].path \in DOMAIN files
              /\ files[scrapes[w].path] = [title |-> scrapes[w].title, by |-> w]

\* No write replaces a file that exists.
C30_NothingReplaced ==
    [][\A p \in DOMAIN files : p \in DOMAIN files' /\ files'[p] = files[p]]_vars

\* Two scrapes with the same slug whose tests of the name did not overlap
\* with the other's write end up in distinct files.
C30_DistinctReachable ==
    /\ BothSaved /\ WritersSameSlug
    /\ scrapes[1].path # scrapes[2].path
    /\ \A w \in Writers : files[scrapes[w].path].by = w

\* --------------------------------------------------------------- C31
BothSavers == ret.web # NotSaved /\ ret.daemon # NotSaved

\* C31: for the same url, title and extracted markdown, scrape_via_daemon
\* and scrape_web choose the same file name and write the same content.
C31_SameOutput ==
    BothSavers => ret.web = ret.daemon

\* When both write a file they choose the same name.
C31_SameName ==
    (BothSavers /\ ret.web.exc = "none") => ret.web.path = ret.daemon.path

\* Both have written, under a name with a suffix.
C31_SameNameReached ==
    /\ BothSavers /\ ret.web.exc = "none"
    /\ ret.web.path = ret.daemon.path
    /\ ret.web.path = md(<<"a", "_", "2">>)

\* The content of the standalone saver is that of the daemon client with
\* the heading put in.
C31_ContentDiffersByHeading ==
    (BothSavers /\ ret.web.exc = "none") =>
        ret.web.content =
            SubSeq(ret.daemon.content, 1, Len(ret.daemon.content) - Len(call.markdown) - 1)
            \o <<"# ">> \o call.title \o <<"\n", "\n">> \o call.markdown \o <<"\n">>

\* --------------------------------------------------------------- C32
Running == {i \in Servers : ret.srv[i] \in {"unlink_socket", "on_startup", "bind", "serving"}}

\* Every dispatcher has ended and no spawned server is still starting.
Settled == (\A d \in Dispatchers : dpc[d] = "exited") /\ booting = 0

\* C32: after any interleaving of dispatcher invocations for web URLs that
\* start with no daemon running, at most one server is left running, and
\* the pid file and the socket file both refer to it.
C32_OneServerLeft ==
    Settled =>
        /\ Cardinality(Running) <= 1
        /\ \A i \in Running : ret.pidfile = i /\ ret.sockfile = i

\* At most one server is left running.
C32_AtMostOneServer == Settled => Cardinality(Running) <= 1

\* One server is left and both files refer to it.
C32_OneServerReached ==
    /\ Settled
    /\ \E i \in Servers : Running = {i} /\ ret.pidfile = i /\ ret.sockfile = i
    /\ \A d \in Dispatchers : dh[d].result = "path"

\* One server is left and neither file refers to it.
C32_LostServerReached ==
    /\ Settled
    /\ \E i \in Servers : Running = {i} /\ ret.pidfile # i /\ ret.sockfile # i

\* --------------------------------------------------------------- C33
\* The browsers the manager launched and has not sent SIGTERM.
Unterminated == {p \in Ids : procs[p] \in {"booting", "up"}}

\* C33: no browser process is orphaned: through every interleaving of
\* start, reconnect and stop, a browser the manager launched and has not
\* terminated is the one recorded in the browser pid file, and after the
\* final stop() none is left.
C33_NoOrphan ==
    /\ \A p \in Unterminated : pidFile = p
    /\ CleanedUpAndExited => Unterminated = {}

\* Both requests have launched a browser in their reconnection and wait
\* for it: the one launched first was terminated by the other request's
\* stop(), the one launched last is alive and recorded.
C33_Witness ==
    /\ \A t \in ReqTasks : pc[t] = "poll" /\ hist[t].stopped
    /\ Cardinality(Unterminated) = 1
    /\ pidFile \in Unterminated

\* A reconnect has launched a browser and the final stop() has run.
C33_WitnessFinalStop ==
    /\ CleanedUpAndExited
    /\ cnt.requests > 0 /\ cnt.env > 0
    /\ \E p \in Ids : procs[p] = "term"

\* --------------------------------------------------------------- C34
WrittenBy(who) == {i \in 1..Len(scrapes) : scrapes[i].by = who}

\* C34: one call to scrape_url writes at most one output file: the files of
\* the directory are those it found and at most one more, and when the
\* standalone scraper runs after the daemon path failed, the daemon path
\* has written no file.
C34_AtMostOneFile ==
    /\ Len(scrapes) <= 1
    /\ Cardinality(DOMAIN files \ DOMAIN before) = Len(scrapes)
    /\ \A p \in DOMAIN before : p \in DOMAIN files /\ files[p] = before[p]
    /\ (ret.at = "web" \/ ret.web # "none") => WrittenBy("daemon") = {}
    /\ ret.result = "path" <=> Len(scrapes) = 1

\* The daemon path failed, the standalone scraper ran and wrote the one
\* file of the call, next to the files that were there.
C34_Witness ==
    /\ ret.at = "done"
    /\ ret.daemon \in {"ClientError", "BadStatus", "ErrorField"}
    /\ ret.web = "path"
    /\ Len(scrapes) = 1 /\ scrapes[1].by = "web"
    /\ DOMAIN before # {}
    /\ DOMAIN files = DOMAIN before \cup {scrapes[1].path}
====
